---- MODULE Spec2Model ----
(***************************************************************************)
(* Term-structure arbitrage detection of Fingent (fingent/arb): the        *)
(* snapshot store and orchestration of ArbEngine, TermStructureStrategy    *)
(* and RiskManager.                                                        *)
(*                                                                         *)
(* Numbers.  Probabilities (mid, p0, delta, cost, edge) are integers in    *)
(* units of 1/ProbScale, so that the average of two integer spreads in     *)
(* basis points divided by 10000 is exact.  A confidence is the integer    *)
(* numerator of a fraction with denominator ConfDen.  Time is counted in   *)
(* ticks of 1/TicksPerSec second; timestamps written by format_timestamp   *)
(* are whole seconds.                                                      *)
(***************************************************************************)
EXTENDS Integers, Sequences, FiniteSets, TLC

VARIABLES
    enabled,    \* ArbEngine.enabled
    now,        \* the wall clock (time.time(), datetime.now), in ticks
    book,       \* the market provider's current answer to get_quote, per market
    snapshots,  \* ArbEngine._snapshots : market_id -> ArbSnapshot
    objs,       \* the ArbOpportunity objects alive in the process, by identity
    log,        \* ArbEngine._opportunities, as identities of objs
    lastAlert,  \* RiskManager._last_alert : event_id -> time
    ret,        \* outcome of the last public call
    firstP0,    \* history: the p0 first recorded for each market_id
    moves,      \* changes of the provider's book so far
    ncalls,     \* public calls made so far
    evIn,       \* arguments of a TermStructureStrategy.evaluate call
    evOut       \* its result

vars == <<enabled, now, book, snapshots, objs, log, lastAlert, ret, firstP0, moves,
          ncalls, evIn, evOut>>

Min(a, b) == IF a < b THEN a ELSE b
Max(a, b) == IF a > b THEN a ELSE b
Abs(a) == IF a < 0 THEN -a ELSE a

(***************************************************************************)
(* Units and program constants                                             *)
(***************************************************************************)
TicksPerSec == 2
BpsPerUnit == 10000
ProbScale == 2 * BpsPerUnit
LiquidityFloor == 500
VolumeNorm == 10000
DepthNorm == 2000
SpreadNorm == 300
FactorScale == 3 * VolumeNorm
ConfDen == 3 * FactorScale

\* configuration (config.yaml: arbitrage.term_structure, arbitrage.risk)
delta_threshold == 1000
trigger_window_ticks == 6
max_markets_per_event == 2
min_volume_24h == 5000
max_spread_bps == 300
min_depth_usd == 1000
min_time_to_settle_hours == 12
cooldown_ticks == 3

(***************************************************************************)
(* Values of the domain model                                              *)
(***************************************************************************)
NoneVal == -1                \* Python None in a numeric field
BadTs == -2                  \* a first_seen_ts that fromisoformat rejects

NoQuote == [kind |-> "none"]
Throws == [kind |-> "throw"]

Quote(mid, spr, db, da, vol) ==
    [kind |-> "quote", mid |-> mid, spread_bps |-> spr,
     depth_bid |-> db, depth_ask |-> da, volume_24h |-> vol]

Market(id, ev, tenor, act) ==
    [market_id |-> id, event_id |-> ev, tenor_days |-> tenor, active |-> act]

\* format_timestamp(now_utc()) followed by datetime.fromisoformat:
\* "%Y-%m-%dT%H:%M:%SZ" drops the fraction of the second
FormatTimestamp(t) == t - (t % TicksPerSec)

(***************************************************************************)
(* strategy.py                                                             *)
(***************************************************************************)
\* estimate_costs without the slippage doubling
estimate_costs_flat(qs, ql) ==
    ((qs.spread_bps + ql.spread_bps) * ProbScale) \div (2 * BpsPerUnit)

\* estimate_costs, in units of 1/ProbScale
estimate_costs(qs, ql) ==
    LET cost == ((qs.spread_bps + ql.spread_bps) * ProbScale) \div (2 * BpsPerUnit)
        min_depth == Min(Min(qs.depth_bid, qs.depth_ask),
                         Min(ql.depth_bid, ql.depth_ask))
    IN  IF min_depth < LiquidityFloor THEN cost * 2 ELSE cost

OrZero(v) == IF v = NoneVal \/ v = 0 THEN 0 ELSE v

\* confidence_from_liquidity with the volume factor left uncapped
confidence_uncapped(qs, ql) ==
    LET min_vol == Min(OrZero(qs.volume_24h), OrZero(ql.volume_24h))
        vol_score == (min_vol * FactorScale) \div VolumeNorm
        min_depth == Min(qs.depth_bid, ql.depth_bid)
        depth_score == Min((min_depth * FactorScale) \div DepthNorm, FactorScale)
        max_spread == Max(qs.spread_bps, ql.spread_bps)
        spread_score == Max(0, FactorScale - (max_spread * FactorScale) \div SpreadNorm)
    IN  vol_score + depth_score + spread_score

\* confidence_from_liquidity, as the numerator over ConfDen
confidence_from_liquidity(qs, ql) ==
    LET min_vol == Min(OrZero(qs.volume_24h), OrZero(ql.volume_24h))
        vol_score == Min((min_vol * FactorScale) \div VolumeNorm, FactorScale)
        min_depth == Min(qs.depth_bid, ql.depth_bid)
        depth_score == Min((min_depth * FactorScale) \div DepthNorm, FactorScale)
        max_spread == Max(qs.spread_bps, ql.spread_bps)
        spread_score == Max(0, FactorScale - (max_spread * FactorScale) \div SpreadNorm)
    IN  vol_score + depth_score + spread_score

\* list.sort(key=tenor_days): stable
RECURSIVE InsertByTenor(_, _)
InsertByTenor(m, s) ==
    IF s = <<>> THEN <<m>>
    ELSE IF s[Len(s)].tenor_days <= m.tenor_days THEN Append(s, m)
    ELSE Append(InsertByTenor(m, SubSeq(s, 1, Len(s) - 1)), s[Len(s)])

\* the markets left in the order given
Unsorted(s) == s

RECURSIVE SortByTenor(_)
SortByTenor(s) ==
    IF s = <<>> THEN <<>>
    ELSE InsertByTenor(s[Len(s)], SortByTenor(SubSeq(s, 1, Len(s) - 1)))

\* the truncation left out
TakeAll(s, n) == s

Take(s, n) == SubSeq(s, 1, Min(n, Len(s)))

NoOpp == [kind |-> "none"]

\* steps 1-3 of evaluate: the eligible markets, sorted and truncated
EligibleMarkets(markets, quotes, snaps) ==
    SelectSeq(markets, LAMBDA m : /\ m.active
                                  /\ m.market_id \in DOMAIN quotes
                                  /\ m.market_id \in DOMAIN snaps)

SelectedMarkets(markets, quotes, snaps) ==
    Take(SortByTenor(EligibleMarkets(markets, quotes, snaps)), max_markets_per_event)

\* step 5: minutes elapsed since the reference instant, in ticks
\* the window measured from the snapshot even when a trigger_ts is given
WindowElapsedFromSnapshot(snap_s, trigger_ts, t) ==
    IF snap_s.first_seen_ts = BadTs THEN 0 ELSE t - snap_s.first_seen_ts

WindowElapsed(snap_s, trigger_ts, t) ==
    LET first_seen == IF trigger_ts # NoneVal THEN trigger_ts
                      ELSE IF snap_s.first_seen_ts = BadTs THEN t
                      ELSE snap_s.first_seen_ts
    IN  t - first_seen

\* the threshold test comparing the wrong way round
ThresholdRejectsInverted(delta_diff) == delta_diff > delta_threshold

ThresholdRejects(delta_diff) == delta_diff < delta_threshold

EdgeRejects(edge) == edge <= 0

\* TermStructureStrategy.evaluate
evaluate(event_id, markets, quotes, snaps, trigger_ts, t) ==
    IF Len(EligibleMarkets(markets, quotes, snaps)) < 2 THEN NoOpp
    ELSE
    LET active == SelectedMarkets(markets, quotes, snaps)
        short == active[1]
        long == active[Len(active)]
        snap_s == snaps[short.market_id]
        snap_l == snaps[long.market_id]
        window_elapsed == WindowElapsed(snap_s, trigger_ts, t)
        quote_s == quotes[short.market_id]
        quote_l == quotes[long.market_id]
        delta_s == quote_s.mid - snap_s.p0
        delta_l == quote_l.mid - snap_l.p0
        delta_diff == Abs(delta_s - delta_l)
        costs == estimate_costs(quote_s, quote_l)
        edge == delta_diff - costs
    IN  IF window_elapsed > trigger_window_ticks THEN NoOpp
        ELSE IF ThresholdRejects(delta_diff) THEN NoOpp
        ELSE IF EdgeRejects(edge) THEN NoOpp
        ELSE [kind |-> "opp",
              timestamp |-> t,
              type |-> "TERM_STRUCTURE",
              event_id |-> event_id,
              legs |-> << [market_id |-> short.market_id,
                           tenor_days |-> short.tenor_days,
                           side |-> "SHORT_LEG",
                           current_mid |-> quote_s.mid,
                           delta |-> delta_s],
                          [market_id |-> long.market_id,
                           tenor_days |-> long.tenor_days,
                           side |-> "LONG_LEG",
                           current_mid |-> quote_l.mid,
                           delta |-> delta_l] >>,
              delta_diff |-> delta_diff,
              edge |-> edge,
              confidence |-> confidence_from_liquidity(quote_s, quote_l),
              evidence |-> [trigger_ts |-> trigger_ts,
                            window_elapsed |-> window_elapsed,
                            short_p0 |-> snap_s.p0,
                            long_p0 |-> snap_l.p0,
                            short_quote |-> quote_s,
                            long_quote |-> quote_l,
                            delta_short |-> delta_s,
                            delta_long |-> delta_l,
                            estimated_costs |-> costs],
              risk_flags |-> <<>>,
              status |-> "CANDIDATE"]

(***************************************************************************)
(* risk.py                                                                 *)
(***************************************************************************)
Flag(kind, id, value) == [kind |-> kind, id |-> id, value |-> value]

\* f"{x:.0f}" of x = n/d: round to the nearest integer, ties to even
RoundHalfEven(n, d) ==
    LET q == n \div d
        r == n % d
    IN  IF 2 * r < d THEN q
        ELSE IF 2 * r > d THEN q + 1
        ELSE IF q % 2 = 0 THEN q ELSE q + 1

VolumeFails(quote) ==
    quote.volume_24h # NoneVal /\ quote.volume_24h < min_volume_24h

\* the loop body with the volume check recorded as a soft flag
LegCheckVolumeSoft(leg, quotes, markets) ==
    LET market_id == leg.market_id
    IN  IF market_id \notin DOMAIN quotes
        THEN [flags |-> << Flag("MISSING_QUOTE", market_id, NoneVal) >>, hard |-> TRUE]
        ELSE
        LET quote == quotes[market_id]
            min_depth == Min(quote.depth_bid, quote.depth_ask)
            low_vol == VolumeFails(quote)
            wide == quote.spread_bps > max_spread_bps
            low_depth == min_depth < min_depth_usd
            close == /\ market_id \in DOMAIN markets
                     /\ markets[market_id].tenor_days * 24 < min_time_to_settle_hours
        IN  [flags |->
                (IF low_vol THEN << Flag("LOW_VOLUME", market_id, quote.volume_24h) >> ELSE <<>>)
                \o (IF wide THEN << Flag("WIDE_SPREAD", market_id, quote.spread_bps) >> ELSE <<>>)
                \o (IF low_depth THEN << Flag("LOW_DEPTH", market_id, min_depth) >> ELSE <<>>)
                \o (IF close THEN << Flag("TOO_CLOSE_TO_SETTLE", market_id,
                                          markets[market_id].tenor_days) >> ELSE <<>>),
             hard |-> wide \/ close]

\* the loop body with the depth check setting hard_fail
LegCheckDepthHard(leg, quotes, markets) ==
    LET market_id == leg.market_id
    IN  IF market_id \notin DOMAIN quotes
        THEN [flags |-> << Flag("MISSING_QUOTE", market_id, NoneVal) >>, hard |-> TRUE]
        ELSE
        LET quote == quotes[market_id]
            min_depth == Min(quote.depth_bid, quote.depth_ask)
            low_vol == VolumeFails(quote)
            wide == quote.spread_bps > max_spread_bps
            low_depth == min_depth < min_depth_usd
            close == /\ market_id \in DOMAIN markets
                     /\ markets[market_id].tenor_days * 24 < min_time_to_settle_hours
        IN  [flags |->
                (IF low_vol THEN << Flag("LOW_VOLUME", market_id, quote.volume_24h) >> ELSE <<>>)
                \o (IF wide THEN << Flag("WIDE_SPREAD", market_id, quote.spread_bps) >> ELSE <<>>)
                \o (IF low_depth THEN << Flag("LOW_DEPTH", market_id, min_depth) >> ELSE <<>>)
                \o (IF close THEN << Flag("TOO_CLOSE_TO_SETTLE", market_id,
                                          markets[market_id].tenor_days) >> ELSE <<>>),
             hard |-> low_vol \/ wide \/ low_depth \/ close]

\* the body of the loop over opportunity.legs: the flags of one leg, and
\* whether it sets hard_fail
LegCheck(leg, quotes, markets) ==
    LET market_id == leg.market_id
    IN  IF market_id \notin DOMAIN quotes
        THEN [flags |-> << Flag("MISSING_QUOTE", market_id, NoneVal) >>, hard |-> TRUE]
        ELSE
        LET quote == quotes[market_id]
            min_depth == Min(quote.depth_bid, quote.depth_ask)
            low_vol == VolumeFails(quote)
            wide == quote.spread_bps > max_spread_bps
            low_depth == min_depth < min_depth_usd
            close == /\ market_id \in DOMAIN markets
                     /\ markets[market_id].tenor_days * 24 < min_time_to_settle_hours
        IN  [flags |->
                (IF low_vol THEN << Flag("LOW_VOLUME", market_id, quote.volume_24h) >> ELSE <<>>)
                \o (IF wide THEN << Flag("WIDE_SPREAD", market_id, quote.spread_bps) >> ELSE <<>>)
                \o (IF low_depth THEN << Flag("LOW_DEPTH", market_id, min_depth) >> ELSE <<>>)
                \o (IF close THEN << Flag("TOO_CLOSE_TO_SETTLE", market_id,
                                          markets[market_id].tenor_days) >> ELSE <<>>),
             hard |-> low_vol \/ wide \/ close]

LastAlertOf(la, event_id) == IF event_id \in DOMAIN la THEN la[event_id] ELSE 0

\* the cooldown test one tick short
InCooldownShort(la, event_id, t) == t - LastAlertOf(la, event_id) < cooldown_ticks - 1

InCooldown(la, event_id, t) == t - LastAlertOf(la, event_id) < cooldown_ticks

\* filter stamping the cooldown clock on every call
RiskFilterAlwaysStamps(opp, quotes, markets, la, t) ==
    LET c1 == LegCheck(opp.legs[1], quotes, markets)
        c2 == LegCheck(opp.legs[2], quotes, markets)
        event_id == opp.event_id
        cooling == InCooldown(la, event_id, t)
        remaining == cooldown_ticks - (t - LastAlertOf(la, event_id))
        flags == c1.flags \o c2.flags
                 \o (IF cooling
                     THEN << Flag("COOLDOWN", event_id, RoundHalfEven(remaining, TicksPerSec)) >>
                     ELSE <<>>)
        hard_fail == c1.hard \/ c2.hard \/ cooling
        status == IF hard_fail THEN "FILTERED" ELSE "CANDIDATE"
    IN  [opp |-> [opp EXCEPT !.risk_flags = flags, !.status = status],
         la |-> [e \in DOMAIN la \cup {event_id} |-> IF e = event_id THEN t ELSE la[e]]]

\* RiskManager.filter: the opportunity as it leaves the call and the
\* cooldown clock after it
RiskFilter(opp, quotes, markets, la, t) ==
    LET c1 == LegCheck(opp.legs[1], quotes, markets)
        c2 == LegCheck(opp.legs[2], quotes, markets)
        event_id == opp.event_id
        cooling == InCooldown(la, event_id, t)
        remaining == cooldown_ticks - (t - LastAlertOf(la, event_id))
        flags == c1.flags \o c2.flags
                 \o (IF cooling
                     THEN << Flag("COOLDOWN", event_id, RoundHalfEven(remaining, TicksPerSec)) >>
                     ELSE <<>>)
        hard_fail == c1.hard \/ c2.hard \/ cooling
        status == IF hard_fail THEN "FILTERED" ELSE "CANDIDATE"
    IN  [opp |-> [opp EXCEPT !.risk_flags = flags, !.status = status],
         la |-> IF status = "CANDIDATE"
                THEN [e \in DOMAIN la \cup {event_id} |-> IF e = event_id THEN t ELSE la[e]]
                ELSE la]

\* RiskManager.reset_cooldown
reset_cooldown(la, event_id) == [e \in DOMAIN la \ {event_id} |-> la[e]]

\* RiskManager.get_cooldown_remaining, in ticks
get_cooldown_remaining(la, event_id, t) ==
    Max(0, cooldown_ticks - (t - LastAlertOf(la, event_id)))

HasFlag(flags, kind, id) ==
    \E i \in 1..Len(flags) : flags[i].kind = kind /\ flags[i].id = id

(***************************************************************************)
(* engine.py.  A handler is a function of the engine's state                *)
(*   st = [sn: _snapshots, ob: opportunity objects, lg: _opportunities,    *)
(*         la: RiskManager._last_alert, calls: provider calls made]        *)
(* to an outcome [st, raised, val]: the state it leaves, whether an        *)
(* exception left it, and its return value.  The provider answers from     *)
(* book for the whole of one handler (its order books are cached for 5 s). *)
(***************************************************************************)
Events == {"e1", "e2"}
MarketIds == {"m1", "m2", "m3", "m4"}

\* the markets get_markets_for_arb lists for an event
EventMarkets(e) ==
    IF e = "e1" THEN << Market("m1", "e1", 7, TRUE), Market("m2", "e1", 30, TRUE) >>
    ELSE << Market("m3", "e2", 7, TRUE), Market("m4", "e2", 30, TRUE) >>

Ids(markets) == {markets[i].market_id : i \in 1..Len(markets)}

Outcome(st, raised, val) == [st |-> st, raised |-> raised, val |-> val]

\* the element of a one-element set: The({ f(r) : r \in {e} }) is f applied
\* to the value of e, with e computed once
The(S) == CHOOSE x \in S : TRUE

Called(st) == [st EXCEPT !.calls = @ + 1]

\* the strategy has been invoked once more
Invoked(st) == [st EXCEPT !.evals = @ + 1]

ArbSnapshot(market_id, news_id, t, quote) ==
    [market_id |-> market_id, news_id |-> news_id,
     first_seen_ts |-> FormatTimestamp(t), p0 |-> quote.mid,
     quote0 |-> quote, volume0 |-> quote.volume_24h]

\* create_snapshots refreshing a snapshot it already holds
RefreshExisting(sn, market_id, snapshot) ==
    IF book[market_id].kind = "quote"
    THEN [m \in DOMAIN sn |-> IF m = market_id THEN snapshot ELSE sn[m]]
    ELSE sn

\* what create_snapshots does with a market that has a snapshot already
KeepExisting(sn, market_id, snapshot) == sn

\* the store after inserting a snapshot
StoreSnapshot(sn, market_id, snapshot) ==
    [m \in DOMAIN sn \cup {market_id} |-> IF m = market_id THEN snapshot ELSE sn[m]]

\* ArbEngine.create_snapshots, from market i of the list on; val is the set
\* of market ids of the returned dict (each maps to the stored snapshot)
RECURSIVE create_snapshots_from(_, _, _, _, _, _)
create_snapshots_from(st, markets, i, news_id, t, acc) ==
    IF i > Len(markets) THEN Outcome(st, FALSE, acc)
    ELSE
    LET id == markets[i].market_id
    IN  IF id \in DOMAIN st.sn
        THEN create_snapshots_from(
                 [st EXCEPT !.sn = KeepExisting(st.sn, id, ArbSnapshot(id, news_id, t, book[id]))],
                 markets, i + 1, news_id, t, acc \cup {id})
        ELSE IF book[id] = Throws THEN Outcome(Called(st), TRUE, acc)
        ELSE IF book[id] = NoQuote
        THEN create_snapshots_from(Called(st), markets, i + 1, news_id, t, acc)
        ELSE create_snapshots_from(
                 [Called(st) EXCEPT !.sn = StoreSnapshot(st.sn, id, ArbSnapshot(id, news_id, t, book[id]))],
                 markets, i + 1, news_id, t, acc \cup {id})

create_snapshots(st, markets, news_id, t) ==
    create_snapshots_from(st, markets, 1, news_id, t, {})

\* provider.get_quotes_batch: the quotes of the markets that have one;
\* raises when the provider fails on one of them
BatchThrows(markets) == \E id \in Ids(markets) : book[id] = Throws

get_quotes_batch(markets) ==
    [id \in {m \in Ids(markets) : book[m].kind = "quote"} |-> book[id]]

Restrict(f, S) == [x \in DOMAIN f \cap S |-> f[x]]

\* the quote count test left out
EnoughQuotesAlways(quotes) == TRUE

\* the test of detect_opportunities on the quotes of an event
EnoughQuotes(quotes) == Cardinality(DOMAIN quotes) >= 2

\* one iteration of the loop of detect_opportunities; val is the
\* opportunity found, or NoOpp
detect_event(st, event_id, trigger_ts, t) ==
    LET markets == EventMarkets(event_id)
        quotes == get_quotes_batch(markets)
    IN  The({ IF snap.raised THEN Outcome(snap.st, TRUE, NoOpp)
              ELSE IF BatchThrows(markets) THEN Outcome(Called(snap.st), TRUE, NoOpp)
              ELSE IF ~EnoughQuotes(quotes)
              THEN Outcome(Called(snap.st), FALSE, NoOpp)
              ELSE Outcome(Invoked(Called(snap.st)), FALSE,
                           evaluate(event_id, markets, quotes,
                                    Restrict(snap.st.sn, Ids(markets)), trigger_ts, t))
              : snap \in { create_snapshots(st, markets, "manual", t) } })

\* what the loop of detect_opportunities does when an iteration raises
\* at event i: the exception leaves detect_opportunities
DetectOnRaise(st, events, i, trigger_ts, t, acc) == Outcome(st, TRUE, acc)

\* ArbEngine.detect_opportunities (behind the enabled check), from event i
\* on; val is the list of the identities of the opportunities created
RECURSIVE detect_from(_, _, _, _, _, _)
detect_from(st, events, i, trigger_ts, t, acc) ==
    IF i > Len(events) THEN Outcome(st, FALSE, acc)
    ELSE
    The({ IF r.raised THEN DetectOnRaise(r.st, events, i, trigger_ts, t, acc)
          ELSE IF r.val = NoOpp
          THEN detect_from(r.st, events, i + 1, trigger_ts, t, acc)
          ELSE detect_from([r.st EXCEPT !.ob = Append(@, r.val)], events, i + 1,
                           trigger_ts, t, Append(acc, Len(r.st.ob) + 1))
          : r \in { detect_event(st, events[i], trigger_ts, t) } })

\* detect_opportunities without its enabled check
detect_unguarded(st, events, trigger_ts, t) ==
    detect_from(st, events, 1, trigger_ts, t, <<>>)

detect_opportunities(st, events, trigger_ts, t) ==
    IF ~enabled THEN Outcome(st, FALSE, <<>>)
    ELSE detect_from(st, events, 1, trigger_ts, t, <<>>)

SetObj(ob, id, opp) == [ob EXCEPT ![id] = opp]

\* the promotion left out
KeepStatus(opp, status) == opp

SetStatus(opp, status) == [opp EXCEPT !.status = status]

\* ArbEngine.filter_opportunities, from entry i of the list on; event_set
\* holds the keys of event_markets; val lists the identities returned
RECURSIVE filter_from(_, _, _, _, _, _)
filter_from(st, opps, i, event_set, t, acc) ==
    IF i > Len(opps) THEN Outcome(st, FALSE, acc)
    ELSE
    LET id == opps[i]
        opp == st.ob[id]
        markets == IF opp.event_id \in event_set THEN EventMarkets(opp.event_id) ELSE <<>>
        markets_dict == [m \in Ids(markets) |->
                            CHOOSE x \in {markets[k] : k \in 1..Len(markets)} : x.market_id = m]
        s1 == Called(st)
    IN  IF BatchThrows(markets) THEN Outcome(s1, TRUE, acc)
        ELSE
        The({ IF f.opp.status = "CANDIDATE"
              THEN filter_from([s1 EXCEPT !.ob = SetObj(@, id, SetStatus(f.opp, "CONFIRMED")),
                                          !.la = f.la,
                                          !.lg = Append(@, id)],
                               opps, i + 1, event_set, t, Append(acc, id))
              ELSE filter_from([s1 EXCEPT !.ob = SetObj(@, id, f.opp), !.la = f.la],
                               opps, i + 1, event_set, t, acc)
              : f \in { RiskFilter(opp, get_quotes_batch(markets), markets_dict, st.la, t) } })

filter_opportunities(st, opps, event_set, t) ==
    filter_from(st, opps, 1, event_set, t, <<>>)

\* what provider.get_markets_for_arb answers: the events it lists, in the
\* order of the dict, or an exception
ListingThrows == << "throw" >>
Range(s) == {s[i] : i \in 1..Len(s)}

\* ArbEngine.scan_markets; val is the listing the provider answers with
scan_markets(st, listing) ==
    IF ~enabled THEN Outcome(st, FALSE, <<>>)
    ELSE IF listing = ListingThrows THEN Outcome(Called(st), TRUE, <<>>)
    ELSE Outcome(Called(st), FALSE, listing)

\* ArbEngine.run_scan; val lists the confirmed opportunities
run_scan(st, listing, trigger_ts, t) ==
    IF ~enabled THEN Outcome(st, FALSE, <<>>)
    ELSE
    LET s1 == Called(st)
    IN  IF listing = ListingThrows THEN Outcome(s1, TRUE, <<>>)
        ELSE IF listing = <<>> THEN Outcome(s1, FALSE, <<>>)
        ELSE
        The({ IF raw.raised THEN Outcome(raw.st, TRUE, <<>>)
              ELSE IF raw.val = <<>> THEN Outcome(raw.st, FALSE, <<>>)
              ELSE filter_opportunities(raw.st, raw.val, Range(listing), t)
              : raw \in { detect_opportunities(s1, listing, trigger_ts, t) } })

\* trigger_keywords, and the words a pattern is searched in
KeywordPatterns == << "fed", "rate" >>

NewsItem(words, url) == [words |-> words, url |-> url]

\* ArbEngine.check_news_trigger
check_news_trigger(item) == SelectSeq(KeywordPatterns, LAMBDA p : p \in item.words)

\* the keyword lists a scan can search with: the patterns an item matches,
\* all of them for a scan without keywords
KeywordLists == { <<"fed">>, <<"rate">>, <<"fed", "rate">> }

\* a provider that answers every keyword search with the same listing
SameForAll(listing) == [k \in KeywordLists |-> listing]

\* ArbEngine.process_news; search is the provider's answer to
\* get_markets_for_arb for each keyword list
process_news(st, item, search, t) ==
    IF ~enabled THEN Outcome(st, FALSE, <<>>)
    ELSE IF check_news_trigger(item) = <<>> THEN Outcome(st, FALSE, <<>>)
    ELSE run_scan(st, search[check_news_trigger(item)], t, t)

\* what the news provider's get_market_news answers
FeedThrows == << Throws >>

\* the loop of ArbEngine.scan_finnhub_news over the news items
RECURSIVE scan_news_from(_, _, _, _, _, _)
scan_news_from(st, items, i, search, t, acc) ==
    IF i > Len(items) THEN Outcome(st, FALSE, acc)
    ELSE
    The({ IF r.raised THEN Outcome(r.st, TRUE, acc)
          ELSE scan_news_from(r.st, items, i + 1, search, t, acc \o r.val)
          : r \in { process_news(st, items[i], search, t) } })

\* ArbEngine.scan_finnhub_news, called with a provider
scan_finnhub_news(st, feed, search, t) ==
    IF ~enabled THEN Outcome(st, FALSE, <<>>)
    ELSE IF feed = FeedThrows THEN Outcome(Called(st), TRUE, <<>>)
    ELSE IF feed = <<>> THEN Outcome(Called(st), FALSE, <<>>)
    ELSE scan_news_from(Called(st), feed, 1, search, t, <<>>)

PipelineResult(t) ==
    [timestamp |-> FormatTimestamp(t), enabled |-> enabled,
     news_scanned |-> 0, news_triggered |-> 0, events_found |-> 0,
     opportunities_raw |-> 0, opportunities_confirmed |-> 0,
     opportunities |-> <<>>, errors |-> <<>>]

\* the try block of run_full_pipeline: the result it has built and whether
\* an exception interrupted it
PipelineBody(st, use_finnhub, feed1, feed2, search, t) ==
    LET base == PipelineResult(t)
    IN  IF use_finnhub
        THEN IF feed1 = FeedThrows
             THEN [st |-> Called(st), raised |-> TRUE, result |-> base]
             ELSE
             LET counted == [base EXCEPT
                                !.news_scanned = Len(feed1),
                                !.news_triggered =
                                    Len(SelectSeq(feed1, LAMBDA it : check_news_trigger(it) # <<>>))]
             IN  The({ [st |-> r.st, raised |-> r.raised,
                        result |-> IF r.raised THEN counted
                                   ELSE [counted EXCEPT
                                            !.opportunities_confirmed = Len(r.val),
                                            !.opportunities = r.val]]
                       : r \in { scan_finnhub_news(Called(st), feed2, search, t) } })
        ELSE The({ [st |-> r.st, raised |-> r.raised,
                    result |-> IF r.raised THEN base
                               ELSE [base EXCEPT !.opportunities_confirmed = Len(r.val),
                                                 !.opportunities = r.val]]
                   : r \in { run_scan(st, search[KeywordPatterns], NoneVal, t) } })

\* run_full_pipeline letting the exception through
PipelineReraise(body) == Outcome(body.st, TRUE, body.result)

\* the except clause of run_full_pipeline
PipelineExcept(body) ==
    Outcome(body.st, FALSE, [body.result EXCEPT !.errors = Append(@, "exception")])

\* ArbEngine.run_full_pipeline; val is the result dict
run_full_pipeline(st, use_finnhub, feed1, feed2, search, t) ==
    IF ~enabled
    THEN Outcome(st, FALSE, [PipelineResult(t) EXCEPT !.errors = Append(@, "disabled")])
    ELSE
    The({ IF body.raised THEN PipelineExcept(body)
          ELSE Outcome(body.st, FALSE, body.result)
          : body \in { PipelineBody(st, use_finnhub, feed1, feed2, search, t) } })

\* the age test evicting at the threshold already
ExpiredAtThreshold(snapshot, older_than, t) ==
    /\ snapshot.first_seen_ts # BadTs
    /\ t - snapshot.first_seen_ts >= older_than

\* the age test in the loop of ArbEngine.clear_snapshots
Expired(snapshot, older_than, t) ==
    /\ snapshot.first_seen_ts # BadTs
    /\ t - snapshot.first_seen_ts > older_than

\* ArbEngine.clear_snapshots; val is the number removed
clear_snapshots(st, older_than, t) ==
    LET to_remove == {m \in DOMAIN st.sn : Expired(st.sn[m], older_than, t)}
    IN  Outcome([st EXCEPT !.sn = [m \in DOMAIN st.sn \ to_remove |-> st.sn[m]]],
                FALSE, Cardinality(to_remove))

(***************************************************************************)
(* Bounds and inputs                                                       *)
(***************************************************************************)
MaxTime == 12
MaxMoves == 1
MaxCalls == 3
MaxObjs == 3

StartTime == 10

QA == Quote(10000, 50, 2500, 2500, 12000)
QB == Quote(12000, 50, 2500, 2500, 12000)
QC == Quote(10400, 50, 2500, 2500, 6000)
QD == Quote(11000, 150, 2500, 400, 1000)
QE == Quote(12000, 350, 400, 400, NoneVal)
QF == Quote(10000, 50, 400, 2500, 12000)
QG == Quote(10000, 50, 2500, 2500, NoneVal)

BookValues == {QA, QB, NoQuote, Throws}
MovingMarkets == {"m1", "m3"}

EventLists == { <<"e1">>, <<"e1", "e2">> }
Listings == EventLists \cup { <<>>, ListingThrows }
NewsIds == {"manual", "n1"}
NewsHit == NewsItem({"fed", "hikes"}, "n1")
NewsMiss == NewsItem({"sports"}, "n2")
Feeds == { FeedThrows, <<>>, <<NewsHit>>, <<NewsMiss, NewsHit>> }
OlderThan == {0, 2}

EmptyMap == [x \in {} |-> 0]
Idle == [op |-> "none"]

(***************************************************************************)
(* The engine as a state machine                                           *)
(***************************************************************************)
CurState ==
    [sn |-> snapshots, ob |-> objs, lg |-> log, la |-> lastAlert, calls |-> 0, evals |-> 0]

Commit(o) ==
    /\ Len(o.st.ob) <= MaxObjs
    /\ snapshots' = o.st.sn
    /\ objs' = o.st.ob
    /\ log' = o.st.lg
    /\ lastAlert' = o.st.la
    /\ firstP0' = [m \in DOMAIN firstP0 \cup DOMAIN o.st.sn |->
                      IF m \in DOMAIN firstP0 THEN firstP0[m] ELSE o.st.sn[m].p0]

PublicCall ==
    /\ ncalls < MaxCalls
    /\ ncalls' = ncalls + 1
    /\ UNCHANGED <<enabled, now, book, moves, evIn, evOut>>

Init ==
    /\ enabled \in BOOLEAN
    /\ now = StartTime
    /\ book = [m \in MarketIds |-> QA]
    /\ snapshots = EmptyMap
    /\ objs = <<>>
    /\ log = <<>>
    /\ lastAlert = EmptyMap
    /\ ret = Idle
    /\ firstP0 = EmptyMap
    /\ moves = 0
    /\ ncalls = 0
    /\ evIn = Idle
    /\ evOut = Idle

\* the clock advances
Tick ==
    /\ now < MaxTime
    /\ now' = now + 1
    /\ UNCHANGED <<enabled, book, snapshots, objs, log, lastAlert, ret, firstP0, moves,
                   ncalls, evIn, evOut>>

\* the provider's answer for one market changes
MarketMove ==
    /\ moves < MaxMoves
    /\ \E m \in MovingMarkets, q \in BookValues :
        /\ q # book[m]
        /\ book' = [book EXCEPT ![m] = q]
    /\ moves' = moves + 1
    /\ UNCHANGED <<enabled, now, snapshots, objs, log, lastAlert, ret, firstP0, ncalls,
                   evIn, evOut>>

CreateSnapshots ==
    /\ PublicCall
    /\ \E e \in Events, news_id \in NewsIds :
        \E o \in { create_snapshots(CurState, EventMarkets(e), news_id, now) } :
            /\ Commit(o)
            /\ ret' = [op |-> "create_snapshots", raised |-> o.raised, val |-> o.val,
                       event |-> e, calls |-> o.st.calls, before |-> snapshots]

DetectOpportunities ==
    /\ PublicCall
    /\ \E events \in EventLists, trigger_ts \in {NoneVal} :
        \E o \in { detect_opportunities(CurState, events, trigger_ts, now) } :
            /\ Commit(o)
            /\ ret' = [op |-> "detect_opportunities", raised |-> o.raised, val |-> o.val,
                       calls |-> o.st.calls,
                       scan |-> [events |-> events, evals |-> o.st.evals,
                                 expect |-> SelectSeq(events, LAMBDA e :
                                    /\ ~BatchThrows(EventMarkets(e))
                                    /\ detect_event(CurState, e, trigger_ts, now).val # NoOpp)]]

\* the lists of opportunities handed to filter_opportunities: one or two
\* different objects out of the n the engine has created
FilterInputs(n) ==
    { <<i>> : i \in 1..n } \cup { p \in (1..n) \X (1..n) : p[1] # p[2] }

FilterOpportunities ==
    /\ PublicCall
    /\ objs # <<>>
    /\ \E opps \in FilterInputs(Len(objs)), event_set \in {Events} :
        \E o \in { filter_opportunities(CurState, opps, event_set, now) } :
            /\ Commit(o)
            /\ ret' = [op |-> "filter_opportunities", raised |-> o.raised, val |-> o.val,
                       opps |-> opps, calls |-> o.st.calls]

RunScan ==
    /\ PublicCall
    /\ \E listing \in Listings, trigger_ts \in {NoneVal} :
        \E o \in { run_scan(CurState, listing, trigger_ts, now) } :
            /\ Commit(o)
            /\ ret' = [op |-> "run_scan", raised |-> o.raised, val |-> o.val,
                       listing |-> listing, calls |-> o.st.calls]

ScanMarkets ==
    /\ PublicCall
    /\ \E listing \in Listings :
        \E o \in { scan_markets(CurState, listing) } :
            /\ Commit(o)
            /\ ret' = [op |-> "scan_markets", raised |-> o.raised, val |-> o.val,
                       listing |-> listing, calls |-> o.st.calls]

ProcessNews ==
    /\ PublicCall
    /\ \E item \in {NewsHit, NewsMiss}, listing \in Listings :
        \E o \in { process_news(CurState, item, SameForAll(listing), now) } :
            /\ Commit(o)
            /\ ret' = [op |-> "process_news", raised |-> o.raised, val |-> o.val,
                       item |-> item, calls |-> o.st.calls]

ClearSnapshots ==
    /\ PublicCall
    /\ \E older_than \in OlderThan :
        \E o \in { clear_snapshots(CurState, older_than, now) } :
            /\ Commit(o)
            /\ ret' = [op |-> "clear_snapshots", raised |-> o.raised, val |-> o.val,
                       older_than |-> older_than, calls |-> o.st.calls]

\* the number of events scan_markets hands to run_scan during a pipeline
\* run: none when no scan is started or the listing fails
PipelineEventsFound(use_finnhub, feed2, listing) ==
    IF ~enabled \/ listing = ListingThrows THEN 0
    ELSE IF use_finnhub /\ (feed2 = FeedThrows
                            \/ SelectSeq(feed2, LAMBDA it : check_news_trigger(it) # <<>>) = <<>>)
    THEN 0
    ELSE Len(listing)

RunFullPipeline ==
    /\ PublicCall
    /\ \E use_finnhub \in BOOLEAN, feed1 \in Feeds, feed2 \in Feeds, listing \in Listings :
        /\ use_finnhub \/ (feed1 = <<>> /\ feed2 = <<>>)
        /\ feed2 \in {feed1, FeedThrows}
        /\ \E o \in { run_full_pipeline(CurState, use_finnhub, feed1, feed2,
                                          SameForAll(listing), now) } :
               /\ Commit(o)
               /\ ret' = [op |-> "run_full_pipeline", raised |-> o.raised, val |-> o.val,
                          calls |-> o.st.calls,
                          threw |-> enabled /\ PipelineBody(CurState, use_finnhub, feed1,
                                                             feed2, SameForAll(listing),
                                                             now).raised,
                          run |-> [found |-> PipelineEventsFound(use_finnhub, feed2, listing),
                                   raw |-> Len(o.st.ob) - Len(objs)]]

ResetCooldown ==
    /\ PublicCall
    /\ \E e \in Events :
        /\ lastAlert' = reset_cooldown(lastAlert, e)
        /\ ret' = [op |-> "reset_cooldown", raised |-> FALSE, val |-> e, calls |-> 0]
    /\ UNCHANGED <<snapshots, objs, log, firstP0>>

Next ==
    \/ Tick
    \/ MarketMove
    \/ CreateSnapshots
    \/ DetectOpportunities
    \/ FilterOpportunities
    \/ RunScan
    \/ ClearSnapshots
    \/ ResetCooldown

Spec == Init /\ [][Next]_vars

\* the news-driven entry points
NextPipeline ==
    \/ Tick
    \/ MarketMove
    \/ ProcessNews
    \/ RunFullPipeline

SpecPipeline == Init /\ [][NextPipeline]_vars

(***************************************************************************)
(* TermStructureStrategy.evaluate on its own: the arguments are drawn at   *)
(* Init, the call is the only step.                                        *)
(***************************************************************************)
StratIds == <<"m1", "m2", "m3">>
StratTenors == { <<7, 30, 90>>, <<30, 7, 90>>, <<7, 7, 30>> }
StratActive == { <<TRUE, TRUE, TRUE>>, <<TRUE, TRUE, FALSE>>, <<TRUE, FALSE, TRUE>> }
StratQuotes == {QA, QB, QC, QD, QE}
StratNow == 12

NoSnap == [kind |-> "none"]
StratSnap(p0, ts) ==
    [kind |-> "snap", market_id |-> "m", news_id |-> "manual", first_seen_ts |-> ts,
     p0 |-> p0, quote0 |-> QA, volume0 |-> QA.volume_24h]

\* a dict: the keys of f whose value is present
Present(f) == [k \in {x \in DOMAIN f : f[x].kind # "none"} |-> f[k]]

StratInputs ==
    { [markets |-> [i \in 1..3 |-> Market(StratIds[i], "e1", tn[i], ac[i])],
       quotes |-> Present([m1 |-> q1, m2 |-> q2, m3 |-> q3]),
       snaps |-> Present([m1 |-> s1, m2 |-> s2, m3 |-> s3]),
       trigger_ts |-> tr,
       t |-> StratNow] :
      tn \in StratTenors, ac \in StratActive,
      q1 \in StratQuotes, q2 \in StratQuotes, q3 \in {QA, NoQuote},
      s1 \in {StratSnap(10000, 10), StratSnap(10400, 10), StratSnap(10000, 2),
              StratSnap(10000, BadTs)},
      s2 \in {StratSnap(10000, 10), StratSnap(10400, 10), NoSnap},
      s3 \in {StratSnap(10000, 10), NoSnap},
      tr \in {NoneVal, 10, 2} }

EngineIdle ==
    /\ enabled = TRUE
    /\ now = StartTime
    /\ book = [m \in MarketIds |-> QA]
    /\ snapshots = EmptyMap
    /\ objs = <<>>
    /\ log = <<>>
    /\ lastAlert = EmptyMap
    /\ ret = Idle
    /\ firstP0 = EmptyMap
    /\ moves = 0
    /\ ncalls = 0

InitStrategy ==
    /\ EngineIdle
    /\ evIn \in StratInputs
    /\ evOut = Idle

EvaluateCall ==
    /\ evIn # Idle
    /\ evOut = Idle
    /\ evOut' = [op |-> "evaluate",
                 val |-> evaluate("e1", evIn.markets, evIn.quotes, evIn.snaps,
                                  evIn.trigger_ts, evIn.t)]
    /\ UNCHANGED <<enabled, now, book, snapshots, objs, log, lastAlert, ret, firstP0, moves,
                   ncalls, evIn>>

SpecStrategy == InitStrategy /\ [][EvaluateCall]_vars

\* the legs the call selects, read from the arguments
Evaluated == evOut # Idle
HasLegs == Len(EligibleMarkets(evIn.markets, evIn.quotes, evIn.snaps)) >= 2
InShort == SelectedMarkets(evIn.markets, evIn.quotes, evIn.snaps)[1]
InLong ==
    LET sel == SelectedMarkets(evIn.markets, evIn.quotes, evIn.snaps) IN sel[Len(sel)]
InDelta(m) == evIn.quotes[m.market_id].mid - evIn.snaps[m.market_id].p0
InDeltaDiff == Abs(InDelta(InShort) - InDelta(InLong))
InSpreadSum == evIn.quotes[InShort.market_id].spread_bps + evIn.quotes[InLong.market_id].spread_bps
InMinDepth ==
    LET qs == evIn.quotes[InShort.market_id]
        ql == evIn.quotes[InLong.market_id]
    IN  Min(Min(qs.depth_bid, qs.depth_ask), Min(ql.depth_bid, ql.depth_ask))
InFresh == WindowElapsed(evIn.snaps[InShort.market_id], evIn.trigger_ts, evIn.t)
               <= trigger_window_ticks

(***************************************************************************)
(* C7  Threshold gate: whenever the short and the long leg selected from   *)
(* the arguments have |delta_short - delta_long| < delta_threshold,        *)
(* evaluate returns none.                                                  *)
(***************************************************************************)
C7_ThresholdGate ==
    (Evaluated /\ HasLegs /\ InDeltaDiff < delta_threshold) => evOut.val = NoOpp

\* a call that only the threshold gate turns down: fresh, positive edge
C7_Witness ==
    /\ Evaluated /\ HasLegs /\ InFresh
    /\ InDeltaDiff < delta_threshold
    /\ InDeltaDiff > 0
    /\ InDeltaDiff * 2 * BpsPerUnit > 2 * InSpreadSum * ProbScale
    /\ evOut.val = NoOpp

(***************************************************************************)
(* C8  Edge positivity: a returned opportunity has edge = delta_diff -     *)
(* estimated cost and edge > 0, the cost being the mean of the two legs'   *)
(* spread_bps over 10000, doubled exactly when the least of the four       *)
(* depths is below 500.                                                    *)
(***************************************************************************)
C8_EdgePositive ==
    (Evaluated /\ evOut.val # NoOpp) =>
        LET o == evOut.val
            factor == IF InMinDepth < 500 THEN 2 ELSE 1
        IN  /\ o.delta_diff = InDeltaDiff
            /\ o.evidence.estimated_costs * 2 * 10000 = factor * InSpreadSum * ProbScale
            /\ o.edge = o.delta_diff - o.evidence.estimated_costs
            /\ o.edge > 0

\* an opportunity whose cost was doubled for thin depth
C8_Witness ==
    /\ Evaluated /\ evOut.val # NoOpp
    /\ InMinDepth < 500
    /\ evOut.val.evidence.estimated_costs > 0
    /\ evOut.val.edge > 0

(***************************************************************************)
(* C9  Confidence bounds: a returned opportunity has 0 <= confidence <= 1, *)
(* the confidence being the mean of the volume, bid-depth and spread       *)
(* factors, each within [0,1].                                             *)
(***************************************************************************)
Clamp01(x) == Max(0, Min(x, FactorScale))

C9_ConfidenceBounds ==
    (Evaluated /\ evOut.val # NoOpp) =>
        LET qs == evIn.quotes[InShort.market_id]
            ql == evIn.quotes[InLong.market_id]
            vol == (Min(OrZero(qs.volume_24h), OrZero(ql.volume_24h)) * FactorScale) \div 10000
            depth == (Min(qs.depth_bid, ql.depth_bid) * FactorScale) \div 2000
            spread == FactorScale - (Max(qs.spread_bps, ql.spread_bps) * FactorScale) \div 300
        IN  /\ evOut.val.confidence = Clamp01(vol) + Clamp01(depth) + Clamp01(spread)
            /\ evOut.val.confidence >= 0
            /\ evOut.val.confidence <= ConfDen

\* an opportunity whose volume factor is capped at 1 and whose spread
\* factor is floored at 0
C9_Witness ==
    /\ Evaluated /\ evOut.val # NoOpp
    /\ Min(OrZero(evIn.quotes[InShort.market_id].volume_24h),
           OrZero(evIn.quotes[InLong.market_id].volume_24h)) > 10000
    /\ evOut.val.confidence > 0


(***************************************************************************)
(* Claims about the engine                                                 *)
(***************************************************************************)
CallStep(ops) == ncalls' = ncalls + 1 /\ ret'.op \in ops

(***************************************************************************)
(* C1  Snapshot idempotence: a create_snapshots or detect_opportunities    *)
(* call leaves every snapshot it finds in the store as it is, a snapshot   *)
(* it creates takes the mid the provider quotes at that call as p0, and a  *)
(* create_snapshots call that returns hands back the stored snapshot of    *)
(* each of its markets that had one.                                       *)
(***************************************************************************)
C1_SnapshotIdempotence ==
    [][CallStep({"create_snapshots", "detect_opportunities"}) =>
        /\ \A m \in DOMAIN snapshots :
              m \in DOMAIN snapshots' /\ snapshots'[m] = snapshots[m]
        /\ \A m \in DOMAIN snapshots' \ DOMAIN snapshots :
              book[m].kind = "quote" /\ snapshots'[m].p0 = book[m].mid
        /\ (ret'.op = "create_snapshots" /\ ~ret'.raised) =>
              \A m \in Ids(EventMarkets(ret'.event)) \cap DOMAIN snapshots :
                  m \in ret'.val]_vars

\* a second create_snapshots returned a snapshot whose p0 is no longer the
\* mid the provider quotes
C1_Witness ==
    /\ ret.op = "create_snapshots"
    /\ ~ret.raised
    /\ \E m \in ret.val \cap DOMAIN ret.before :
          /\ book[m].kind = "quote"
          /\ book[m].mid # snapshots[m].p0
          /\ snapshots[m] = ret.before[m]

(***************************************************************************)
(* C2  (as stated) the p0 reported for a market_id never differs from the  *)
(* p0 first recorded for that market_id, whatever operations run.          *)
(***************************************************************************)
C2_P0NeverChanges ==
    \A m \in DOMAIN snapshots : snapshots[m].p0 = firstP0[m]

(***************************************************************************)
(* C2  (amended) while a snapshot stays in the store its p0 never changes: *)
(* no operation alters the p0 of a stored snapshot, and the p0 of a        *)
(* market_id differs from the one first recorded only after                *)
(* clear_snapshots has evicted that market's snapshot.                     *)
(***************************************************************************)
C2_P0StableWhileStored ==
    [][/\ \A m \in DOMAIN snapshots \cap DOMAIN snapshots' :
              snapshots'[m].p0 = snapshots[m].p0
       /\ \A m \in DOMAIN snapshots \ DOMAIN snapshots' :
              CallStep({"clear_snapshots"})]_vars

\* a scan found a stored snapshot whose market has since moved, and left it
C2_Witness ==
    /\ ret.op \in {"run_scan", "detect_opportunities"}
    /\ ncalls >= 2
    /\ \E m \in DOMAIN snapshots :
          /\ book[m].kind = "quote"
          /\ book[m].mid # snapshots[m].p0
          /\ snapshots[m].p0 = firstP0[m]

(***************************************************************************)
(* C4  The status of an opportunity is terminal once it is CONFIRMED or    *)
(* FILTERED: no later operation changes it.                                *)
(***************************************************************************)
C4_TerminalStatus ==
    [][\A i \in 1..Len(objs) :
          objs[i].status \in {"CONFIRMED", "FILTERED"} =>
              objs'[i].status = objs[i].status]_vars

(***************************************************************************)
(* C5  Failure isolation: a detect_opportunities or run_scan call over     *)
(* several events returns even when the provider throws for one event,     *)
(* with the opportunities of the events the provider answered for.         *)
(***************************************************************************)
C5_FailureIsolation ==
    /\ (ret.op = "run_scan" /\ ret.listing # ListingThrows /\ Len(ret.listing) >= 2) =>
          ~ret.raised
    /\ (ret.op = "detect_opportunities" /\ Len(ret.scan.events) >= 2) =>
          /\ ~ret.raised
          /\ \A e \in Range(ret.scan.expect) :
                \E i \in 1..Len(ret.val) : objs[ret.val[i]].event_id = e

(***************************************************************************)
(* C6  No exception leaves run_full_pipeline: it returns a result record;  *)
(* if a provider threw during the run the record's errors are non-empty;   *)
(* a disabled engine returns an error entry without any provider call.     *)
(***************************************************************************)
C6_PipelineNeverRaises ==
    ret.op = "run_full_pipeline" =>
        /\ ~ret.raised
        /\ ret.threw => ret.val.errors # <<>>
        /\ ~enabled => (ret.val.errors # <<>> /\ ret.calls = 0)

\* a run in which a provider threw after the engine had made other calls
C6_Witness ==
    /\ ret.op = "run_full_pipeline"
    /\ ret.threw
    /\ ret.calls >= 2
    /\ ret.val.errors # <<>>
    /\ ~ret.raised

(***************************************************************************)
(* RiskManager on its own: two candidate opportunities, one per event, as  *)
(* evaluate builds them; filter is called on them with quotes and market   *)
(* metadata chosen by the caller, while the clock advances.                *)
(***************************************************************************)
RiskMaxTime == 14

RiskSnaps(e) ==
    [m \in Ids(EventMarkets(e)) |-> ArbSnapshot(m, "manual", StartTime, QA)]

RiskOpp(e) ==
    evaluate(e, EventMarkets(e),
             [m \in Ids(EventMarkets(e)) |-> IF m = EventMarkets(e)[1].market_id THEN QB ELSE QA],
             RiskSnaps(e), NoneVal, StartTime)

\* the quotes handed to filter for the short and the long leg
RiskQuoteCases ==
    { <<QA, QA>>, <<QD, QA>>, <<QA, QD>>, <<QE, QA>>, <<NoQuote, QD>>, <<QF, QA>>,
      <<QA, QG>> }

RiskMarketCases == {"none", "far", "near"}

RiskQuotes(opp, c) ==
    Present([m \in {opp.legs[1].market_id, opp.legs[2].market_id} |->
                IF m = opp.legs[1].market_id THEN c[1] ELSE c[2]])

RiskMarkets(opp, k) ==
    IF k = "none" THEN EmptyMap
    ELSE [m \in {opp.legs[1].market_id, opp.legs[2].market_id} |->
             Market(m, opp.event_id,
                    IF m = opp.legs[1].market_id
                    THEN (IF k = "near" THEN 0 ELSE opp.legs[1].tenor_days)
                    ELSE opp.legs[2].tenor_days,
                    TRUE)]

InitRisk ==
    /\ enabled = TRUE
    /\ now = StartTime
    /\ book = [m \in MarketIds |-> QA]
    /\ snapshots = EmptyMap
    /\ objs = << RiskOpp("e1"), RiskOpp("e2") >>
    /\ log = <<>>
    /\ lastAlert = EmptyMap
    /\ ret = [op |-> "none", n |-> 0]
    /\ firstP0 = EmptyMap
    /\ moves = 0
    /\ ncalls = 0
    /\ evIn = Idle
    /\ evOut = Idle

RiskFrame == UNCHANGED <<enabled, book, snapshots, log, firstP0, moves, ncalls, evIn, evOut>>

RiskTick ==
    /\ now < RiskMaxTime
    /\ now' = now + 1
    /\ UNCHANGED <<objs, lastAlert, ret>>
    /\ RiskFrame

RiskFilterCall ==
    /\ \E i \in 1..Len(objs), c \in RiskQuoteCases, k \in RiskMarketCases :
        /\ i = 1 \/ (c = <<QA, QA>> /\ k = "far")
        /\ LET quotes == RiskQuotes(objs[i], c)
               markets == RiskMarkets(objs[i], k)
               r == RiskFilter(objs[i], quotes, markets, lastAlert, now)
           IN  /\ objs' = SetObj(objs, i, r.opp)
               /\ lastAlert' = r.la
               /\ ret' = [op |-> "filter", n |-> 1 - ret.n, obj |-> i, quotes |-> quotes,
                          markets |-> markets,
                          cooling |-> objs[i].event_id \in DOMAIN lastAlert]
    /\ UNCHANGED now
    /\ RiskFrame

RiskResetCall ==
    /\ \E e \in Events :
        /\ lastAlert' = reset_cooldown(lastAlert, e)
        /\ ret' = [op |-> "reset_cooldown", n |-> 1 - ret.n, event |-> e]
    /\ UNCHANGED <<now, objs>>
    /\ RiskFrame

NextRisk == RiskTick \/ RiskFilterCall \/ RiskResetCall

SpecRisk == InitRisk /\ [][NextRisk]_vars

\* the step is a filter call on opportunity i
FilterStep(i) == ret'.n # ret.n /\ ret'.op = "filter" /\ ret'.obj = i

CooldownFlags(opp) ==
    SelectSeq(opp.risk_flags, LAMBDA f : f.kind = "COOLDOWN" /\ f.id = opp.event_id)

(***************************************************************************)
(* C3  (as stated) after a passing filter call for an event at t1, a       *)
(* filter call for the same event at t2 with t2 - t1 < cooldown_seconds    *)
(* and no reset in between ends FILTERED with a COOLDOWN:<event_id> flag   *)
(* that carries a positive remaining time; two passing evaluations of an   *)
(* event are at least cooldown_seconds apart.                              *)
(***************************************************************************)
C3_CooldownEnforced ==
    [][\A i \in 1..Len(objs) :
          (FilterStep(i) /\ objs[i].event_id \in DOMAIN lastAlert) =>
              LET e == objs[i].event_id
              IN  /\ now - lastAlert[e] < cooldown_ticks =>
                        /\ objs'[i].status = "FILTERED"
                        /\ CooldownFlags(objs'[i]) # <<>>
                        /\ CooldownFlags(objs'[i])[1].value > 0
                  /\ objs'[i].status = "CANDIDATE" =>
                        now - lastAlert[e] >= cooldown_ticks]_vars

(***************************************************************************)
(* C3  (amended) such a call ends FILTERED with a COOLDOWN:<event_id>      *)
(* flag; the remaining time cooldown_seconds - (t2 - t1) is positive and   *)
(* the flag carries it rounded to whole seconds, which is 0 when at most   *)
(* half a second remains; two passing evaluations of an event are at       *)
(* least cooldown_seconds apart.                                           *)
(***************************************************************************)
C3_CooldownEnforcedRounded ==
    [][\A i \in 1..Len(objs) :
          (FilterStep(i) /\ objs[i].event_id \in DOMAIN lastAlert) =>
              LET e == objs[i].event_id
                  remaining == cooldown_ticks - (now - lastAlert[e])
              IN  /\ now - lastAlert[e] < cooldown_ticks =>
                        /\ objs'[i].status = "FILTERED"
                        /\ CooldownFlags(objs'[i]) # <<>>
                        /\ remaining > 0
                        /\ get_cooldown_remaining(lastAlert', e, now') = remaining
                        /\ CooldownFlags(objs'[i])[1].value >= 0
                        /\ 2 * Abs(TicksPerSec * CooldownFlags(objs'[i])[1].value - remaining)
                              <= TicksPerSec
                        /\ (2 * remaining > TicksPerSec =>
                              CooldownFlags(objs'[i])[1].value > 0)
                  /\ objs'[i].status = "CANDIDATE" =>
                        now - lastAlert[e] >= cooldown_ticks]_vars

\* an opportunity filtered by the cooldown alone, a second before it ends
C3_Witness ==
    /\ ret.op = "filter"
    /\ ret.cooling
    /\ objs[ret.obj].status = "FILTERED"
    /\ Len(objs[ret.obj].risk_flags) = 1
    /\ CooldownFlags(objs[ret.obj]) # <<>>
    /\ CooldownFlags(objs[ret.obj])[1].value = 1
    /\ now > lastAlert[objs[ret.obj].event_id]

(***************************************************************************)
(* C10  Hard-fail dominance: when a leg's quote has volume_24h below       *)
(* min_volume_24h, filter ends FILTERED with a LOW_VOLUME:<market_id>      *)
(* flag, whatever the other leg's quote and the cooldown state.            *)
(***************************************************************************)
C10_LowVolumeDominates ==
    ret.op = "filter" =>
        \A k \in 1..2 :
            LET m == objs[ret.obj].legs[k].market_id
            IN  (/\ m \in DOMAIN ret.quotes
                 /\ ret.quotes[m].volume_24h # NoneVal
                 /\ ret.quotes[m].volume_24h < min_volume_24h) =>
                    /\ objs[ret.obj].status = "FILTERED"
                    /\ HasFlag(objs[ret.obj].risk_flags, "LOW_VOLUME", m)

\* low volume is the only hard failure: the long leg is thin, the short leg
\* is sound and the event is not cooling down
C10_Witness ==
    /\ ret.op = "filter"
    /\ ~ret.cooling
    /\ objs[ret.obj].status = "FILTERED"
    /\ LET s == objs[ret.obj].legs[1].market_id
           l == objs[ret.obj].legs[2].market_id
       IN  /\ s \in DOMAIN ret.quotes /\ ret.quotes[s] = QA
           /\ l \in DOMAIN ret.quotes /\ ret.quotes[l].volume_24h = 1000
           /\ HasFlag(objs[ret.obj].risk_flags, "LOW_VOLUME", l)
           /\ ~HasFlag(objs[ret.obj].risk_flags, "TOO_CLOSE_TO_SETTLE", s)

\* a hard-fail condition holds for the opportunity, the quotes and the
\* market metadata handed to filter, with the cooldown clocks la at time t
HardFailCondition(opp, quotes, markets, la, t) ==
    \/ \E k \in 1..2 :
          LET m == opp.legs[k].market_id
          IN  \/ m \notin DOMAIN quotes
              \/ /\ m \in DOMAIN quotes
                 /\ \/ /\ quotes[m].volume_24h # NoneVal
                       /\ quotes[m].volume_24h < min_volume_24h
                    \/ quotes[m].spread_bps > max_spread_bps
                    \/ /\ m \in DOMAIN markets
                       /\ markets[m].tenor_days * 24 < min_time_to_settle_hours
    \/ /\ opp.event_id \in DOMAIN la
       /\ t - la[opp.event_id] < cooldown_ticks

(***************************************************************************)
(* C11  RiskManager.filter ends FILTERED exactly when a hard-fail          *)
(* condition holds (a leg without quote, with low volume, with a wide      *)
(* spread, too close to settlement in the supplied metadata, or the event  *)
(* in its cooldown) and CANDIDATE otherwise; low depth alone only adds a   *)
(* LOW_DEPTH flag.                                                         *)
(***************************************************************************)
C11_FilteredIffHardFail ==
    [][\A i \in 1..Len(objs) :
          FilterStep(i) =>
              /\ objs'[i].status \in {"FILTERED", "CANDIDATE"}
              /\ objs'[i].status = "FILTERED" <=>
                    HardFailCondition(objs[i], ret'.quotes, ret'.markets, lastAlert, now)
              /\ \A k \in 1..2 :
                    LET m == objs[i].legs[k].market_id
                    IN  (/\ m \in DOMAIN ret'.quotes
                         /\ Min(ret'.quotes[m].depth_bid, ret'.quotes[m].depth_ask)
                               < min_depth_usd)
                        => HasFlag(objs'[i].risk_flags, "LOW_DEPTH", m)]_vars

\* a filter call whose only finding is the low depth of the short leg: the
\* opportunity passes with that one flag
C11_Witness ==
    /\ ret.op = "filter"
    /\ objs[ret.obj].status = "CANDIDATE"
    /\ Len(objs[ret.obj].risk_flags) = 1
    /\ objs[ret.obj].risk_flags[1].kind = "LOW_DEPTH"
    /\ ret.markets # EmptyMap

(***************************************************************************)
(* filter_opportunities on its own: the engine holds snapshots of both     *)
(* events and three candidates that detect_opportunities produced (two of  *)
(* them for the same event), and is asked to filter lists of them while    *)
(* the book moves, the clock advances and cooldowns are reset.             *)
(***************************************************************************)
InitFilter ==
    /\ enabled = TRUE
    /\ now = StartTime
    /\ book = [m \in MarketIds |-> IF m \in MovingMarkets THEN QB ELSE QA]
    /\ snapshots = [m \in MarketIds |-> ArbSnapshot(m, "manual", StartTime, QA)]
    /\ objs = << RiskOpp("e1"), RiskOpp("e2"), RiskOpp("e1") >>
    /\ log = <<>>
    /\ lastAlert = EmptyMap
    /\ ret = Idle
    /\ firstP0 = [m \in MarketIds |-> QA.mid]
    /\ moves = 0
    /\ ncalls = 0
    /\ evIn = Idle
    /\ evOut = Idle

NextFilter ==
    \/ Tick
    \/ MarketMove
    \/ FilterOpportunities
    \/ ResetCooldown

SpecFilter == InitFilter /\ [][NextFilter]_vars

\* the market metadata filter_opportunities builds for an event
MarketsDict(event_id) ==
    [m \in Ids(EventMarkets(event_id)) |->
        CHOOSE x \in Range(EventMarkets(event_id)) : x.market_id = m]

IsPrefix(s, t) == Len(s) <= Len(t) /\ SubSeq(t, 1, Len(s)) = s

(***************************************************************************)
(* C12  A filter_opportunities call that returns hands back exactly the    *)
(* input opportunities that passed the Risk Manager, in input order, each  *)
(* CONFIRMED, and appends exactly those to the opportunity log; the ones   *)
(* that end FILTERED are neither returned nor appended; no operation       *)
(* removes or rewrites a log entry.                                        *)
(***************************************************************************)
C12_FilterReturnsAndLogsPassing ==
    [][/\ IsPrefix(log, log')
       /\ (CallStep({"filter_opportunities"}) /\ ~ret'.raised) =>
             LET opps == ret'.opps
                 first == objs[opps[1]]
             IN  /\ \A k \in 1..Len(opps) : objs'[opps[k]].status \in {"CONFIRMED", "FILTERED"}
                 /\ ret'.val = SelectSeq(opps, LAMBDA id : objs'[id].status = "CONFIRMED")
                 /\ log' = log \o ret'.val
                 /\ objs'[opps[1]].status = "CONFIRMED" <=>
                       ~HardFailCondition(first, get_quotes_batch(EventMarkets(first.event_id)),
                                          MarketsDict(first.event_id), lastAlert, now)]_vars

\* a call on two opportunities that filtered out the first and returned
\* and logged the second, after an earlier call had logged another
C12_Witness ==
    /\ ret.op = "filter_opportunities"
    /\ ~ret.raised
    /\ Len(ret.opps) = 2
    /\ ret.val = << ret.opps[2] >>
    /\ objs[ret.opps[1]].status = "FILTERED"
    /\ Len(log) >= 2
    /\ log[Len(log)] = ret.opps[2]

(***************************************************************************)
(* C13  The result of a run_full_pipeline call that captured no error      *)
(* carries the counts of the run: events_found is the number of events     *)
(* the scan found, opportunities_raw the number of candidates the strategy *)
(* produced during the call, and opportunities_confirmed the number of     *)
(* opportunities confirmed, which is the length of the opportunities list. *)
(***************************************************************************)
C13_PipelineCounts ==
    (ret.op = "run_full_pipeline" /\ ~ret.raised /\ ret.val.errors = <<>>) =>
        /\ ret.val.events_found = ret.run.found
        /\ ret.val.opportunities_raw = ret.run.raw
        /\ ret.val.opportunities_confirmed = Len(ret.val.opportunities)
        /\ \A k \in 1..Len(ret.val.opportunities) :
              objs[ret.val.opportunities[k]].status = "CONFIRMED"

(***************************************************************************)
(* The entry points that test the enabled flag, with create_snapshots      *)
(* (which does not test it) filling the snapshot store.                    *)
(***************************************************************************)
NextEntry ==
    \/ Tick
    \/ MarketMove
    \/ CreateSnapshots
    \/ ScanMarkets
    \/ DetectOpportunities
    \/ RunScan
    \/ ProcessNews

SpecEntry == Init /\ [][NextEntry]_vars

(***************************************************************************)
(* C14  Disabled short-circuit: with the enabled flag false, run_scan,     *)
(* process_news, detect_opportunities and scan_markets return an empty     *)
(* result without a call to the market provider and leave the snapshot     *)
(* store, the opportunity log and the cooldown clocks unchanged.           *)
(***************************************************************************)
C14_DisabledShortCircuit ==
    [][(/\ ~enabled
        /\ CallStep({"run_scan", "process_news", "detect_opportunities", "scan_markets"})) =>
            /\ ~ret'.raised
            /\ ret'.val = <<>>
            /\ ret'.calls = 0
            /\ UNCHANGED <<snapshots, objs, log, lastAlert>>]_vars

\* a disabled engine that holds snapshots was given a triggering headline
\* while the provider would have thrown on a quote
C14_Witness ==
    /\ ~enabled
    /\ ret.op = "process_news"
    /\ check_news_trigger(ret.item) # <<>>
    /\ snapshots # EmptyMap
    /\ \E m \in MarketIds : book[m] = Throws

(***************************************************************************)
(* BaseNode.merge_signals as a function of its two arguments.              *)
(***************************************************************************)
\* signal.get("id") of a signal without the key
NoId == "None"

Signal(id, name) == [id |-> id, name |-> name]

\* the set of ids forgetting the signal just appended
SeenForgets(ids, signal) == ids

\* existing_ids.add(signal.get("id"))
SeenAdd(ids, signal) == ids \cup {signal.id}

\* the loop of merge_signals over new_signals, from signal i on
RECURSIVE merge_from(_, _, _, _)
merge_from(merged, existing_ids, new_signals, i) ==
    IF i > Len(new_signals) THEN merged
    ELSE IF new_signals[i].id \notin existing_ids
    THEN merge_from(Append(merged, new_signals[i]), SeenAdd(existing_ids, new_signals[i]),
                    new_signals, i + 1)
    ELSE merge_from(merged, existing_ids, new_signals, i + 1)

merge_signals(existing, new_signals) ==
    merge_from(existing, {existing[k].id : k \in 1..Len(existing)}, new_signals, 1)

MaxSignals == 2
SignalValues == { Signal(id, name) : id \in {"sig1", "sig2", NoId}, name \in {"a", "b"} }
SignalLists == UNION { [1..n -> SignalValues] : n \in 0..MaxSignals }

InitMerge ==
    /\ EngineIdle
    /\ evIn \in { [existing |-> ex, new_signals |-> nw] : ex \in SignalLists, nw \in SignalLists }
    /\ evOut = Idle

MergeCall ==
    /\ evIn # Idle
    /\ evOut = Idle
    /\ evOut' = [op |-> "merge_signals", val |-> merge_signals(evIn.existing, evIn.new_signals)]
    /\ UNCHANGED <<enabled, now, book, snapshots, objs, log, lastAlert, ret, firstP0, moves,
                   ncalls, evIn>>

SpecMerge == InitMerge /\ [][MergeCall]_vars

SignalIds(signals) == {signals[k].id : k \in 1..Len(signals)}

DistinctIds(signals) ==
    \A j, k \in 1..Len(signals) : signals[j].id = signals[k].id => j = k

\* the positions of new_signals whose id occurs neither in existing nor at
\* an earlier position of new_signals
FirstOccurrences(existing, new_signals) ==
    { i \in 1..Len(new_signals) :
        /\ new_signals[i].id \notin SignalIds(existing)
        /\ \A j \in 1..(i - 1) : new_signals[j].id # new_signals[i].id }

\* the signals of s at the positions in K, in the order of s
RECURSIVE Pick(_, _, _)
Pick(s, K, i) ==
    IF i > Len(s) THEN <<>>
    ELSE (IF i \in K THEN << s[i] >> ELSE <<>>) \o Pick(s, K, i + 1)

(***************************************************************************)
(* C15  merge_signals returns the existing signals unchanged and in order, *)
(* followed by each new signal whose id is not already present, the first  *)
(* occurrence of an id winning; when the existing ids are pairwise         *)
(* distinct so are the merged ones.                                        *)
(***************************************************************************)
C15_MergeDeduplicates ==
    evOut # Idle =>
        /\ evOut.val = evIn.existing
                         \o Pick(evIn.new_signals,
                                 FirstOccurrences(evIn.existing, evIn.new_signals), 1)
        /\ DistinctIds(evIn.existing) => DistinctIds(evOut.val)

\* two new signals share an id the existing list does not hold: the first
\* is appended, the second dropped
C15_Witness ==
    /\ evOut # Idle
    /\ evIn.existing # <<>>
    /\ Len(evIn.new_signals) = 2
    /\ evIn.new_signals[1].id = evIn.new_signals[2].id
    /\ evIn.new_signals[1].name # evIn.new_signals[2].name
    /\ evOut.val = Append(evIn.existing, evIn.new_signals[1])

\* the positions of the markets handed to evaluate that are active and
\* have a quote and a snapshot
InEligible ==
    { i \in 1..Len(evIn.markets) :
        /\ evIn.markets[i].active
        /\ evIn.markets[i].market_id \in DOMAIN evIn.quotes
        /\ evIn.markets[i].market_id \in DOMAIN evIn.snaps }

\* K holds n of the eligible markets and none outside it has a shorter tenor
ShortestTenors(K, n) ==
    /\ K \subseteq InEligible
    /\ Cardinality(K) = n
    /\ \A i \in K, j \in InEligible \ K :
          evIn.markets[i].tenor_days <= evIn.markets[j].tenor_days

\* leg is the market at a position of K, and its tenor is the least (sign
\* = 1) or the greatest (sign = -1) of K
LegIsExtreme(leg, K, sign) ==
    \E i \in K :
        /\ leg.market_id = evIn.markets[i].market_id
        /\ leg.tenor_days = evIn.markets[i].tenor_days
        /\ \A j \in K : sign * evIn.markets[i].tenor_days <= sign * evIn.markets[j].tenor_days

(***************************************************************************)
(* C16  Leg selection: evaluate returns none when fewer than two markets   *)
(* are active with a quote and a snapshot; the legs of an opportunity it   *)
(* returns come from the max_markets_per_event shortest tenors among the   *)
(* eligible markets, the short leg of minimum and the long leg of maximum  *)
(* tenor_days of that truncated set.                                       *)
(***************************************************************************)
C16_LegSelection ==
    Evaluated =>
        /\ Cardinality(InEligible) < 2 => evOut.val = NoOpp
        /\ evOut.val # NoOpp =>
              \E K \in SUBSET InEligible :
                  /\ ShortestTenors(K, Min(max_markets_per_event, Cardinality(InEligible)))
                  /\ LegIsExtreme(evOut.val.legs[1], K, 1)
                  /\ LegIsExtreme(evOut.val.legs[2], K, -1)

\* three eligible markets given longest tenor last but not in tenor order:
\* the truncation drops the 90-day market and the legs are the other two
C16_Witness ==
    /\ Evaluated
    /\ evOut.val # NoOpp
    /\ Cardinality(InEligible) = 3
    /\ evIn.markets[1].tenor_days > evIn.markets[2].tenor_days
    /\ evOut.val.legs[1].market_id = evIn.markets[2].market_id
    /\ evOut.val.legs[2].market_id = evIn.markets[1].market_id

\* the reference instant of the staleness gate, read from the arguments
InReference ==
    IF evIn.trigger_ts # NoneVal THEN evIn.trigger_ts
    ELSE evIn.snaps[InShort.market_id].first_seen_ts

(***************************************************************************)
(* C17  Staleness gate: the reference instant is trigger_ts when supplied  *)
(* and otherwise the first_seen_ts of the short leg's snapshot; when more  *)
(* than trigger_window_minutes have elapsed from it to the evaluation,     *)
(* evaluate returns none, and an opportunity it returns records the time   *)
(* elapsed from that reference.                                            *)
(***************************************************************************)
C17_StalenessGate ==
    (Evaluated /\ HasLegs /\ InReference # BadTs) =>
        /\ evIn.t - InReference > trigger_window_ticks => evOut.val = NoOpp
        /\ evOut.val # NoOpp => evOut.val.evidence.window_elapsed = evIn.t - InReference

\* a wide divergence on a fresh snapshot turned down because the trigger
\* is older than the window
C17_Witness ==
    /\ Evaluated
    /\ HasLegs
    /\ evIn.trigger_ts # NoneVal
    /\ evIn.t - evIn.trigger_ts > trigger_window_ticks
    /\ evIn.t - evIn.snaps[InShort.market_id].first_seen_ts <= trigger_window_ticks
    /\ InDeltaDiff >= 2 * delta_threshold
    /\ InMinDepth >= LiquidityFloor
    /\ evOut.val = NoOpp

(***************************************************************************)
(* The scans of an engine that took the snapshots of event e1 earlier      *)
(* than the trigger window reaches back.                                   *)
(***************************************************************************)
EarlierScan == StartTime - trigger_window_ticks - TicksPerSec

InitWindow ==
    /\ enabled = TRUE
    /\ now = StartTime
    /\ book = [m \in MarketIds |-> QA]
    /\ snapshots = [m \in Ids(EventMarkets("e1")) |-> ArbSnapshot(m, "manual", EarlierScan, QA)]
    /\ objs = <<>>
    /\ log = <<>>
    /\ lastAlert = EmptyMap
    /\ ret = Idle
    /\ firstP0 = [m \in Ids(EventMarkets("e1")) |-> QA.mid]
    /\ moves = 0
    /\ ncalls = 0
    /\ evIn = Idle
    /\ evOut = Idle

NextWindow ==
    \/ Tick
    \/ MarketMove
    \/ RunScan
    \/ ProcessNews

SpecWindow == InitWindow /\ [][NextWindow]_vars

(***************************************************************************)
(* C18  No scan, manual or triggered by news, produces an opportunity      *)
(* whose short-leg snapshot was first seen more than                       *)
(* trigger_window_minutes before the evaluation.                           *)
(***************************************************************************)
C18_NoStaleSnapshotActedOn ==
    [][\A i \in (Len(objs) + 1)..Len(objs') :
          now - snapshots'[objs'[i].legs[1].market_id].first_seen_ts
              <= trigger_window_ticks]_vars

(***************************************************************************)
(* C19  Cooldown clock update: a filter call that passes sets the clock of *)
(* the opportunity's event to the current time and changes no other        *)
(* event's clock; a call that ends FILTERED, for whatever reason, leaves   *)
(* every clock as it was.                                                  *)
(***************************************************************************)
C19_ClockUpdatedOnPassOnly ==
    [][\A i \in 1..Len(objs) :
          FilterStep(i) =>
              LET e == objs[i].event_id
              IN  /\ objs'[i].status = "CANDIDATE" =>
                        /\ DOMAIN lastAlert' = DOMAIN lastAlert \cup {e}
                        /\ lastAlert'[e] = now
                        /\ \A x \in DOMAIN lastAlert \ {e} : lastAlert'[x] = lastAlert[x]
                  /\ objs'[i].status = "FILTERED" => lastAlert' = lastAlert]_vars

\* a call turned down by the cooldown, later than the pass that started
\* it, while the other event has a clock of its own
C19_Witness ==
    /\ ret.op = "filter"
    /\ objs[ret.obj].status = "FILTERED"
    /\ CooldownFlags(objs[ret.obj]) # <<>>
    /\ DOMAIN lastAlert = Events
    /\ lastAlert[objs[ret.obj].event_id] < now

(***************************************************************************)
(* The risk manager on a host whose clock reads the first seconds after    *)
(* the epoch: time.time() is smaller than cooldown_seconds.                *)
(***************************************************************************)
EpochTime == 0

EpochMaxTime == 4

EpochSnaps(e) ==
    [m \in Ids(EventMarkets(e)) |-> ArbSnapshot(m, "manual", EpochTime, QA)]

EpochOpp(e) ==
    evaluate(e, EventMarkets(e),
             [m \in Ids(EventMarkets(e)) |-> IF m = EventMarkets(e)[1].market_id THEN QB ELSE QA],
             EpochSnaps(e), NoneVal, EpochTime)

InitEpoch ==
    /\ enabled = TRUE
    /\ now = EpochTime
    /\ book = [m \in MarketIds |-> QA]
    /\ snapshots = EmptyMap
    /\ objs = << EpochOpp("e1"), EpochOpp("e2") >>
    /\ log = <<>>
    /\ lastAlert = EmptyMap
    /\ ret = [op |-> "none", n |-> 0]
    /\ firstP0 = EmptyMap
    /\ moves = 0
    /\ ncalls = 0
    /\ evIn = Idle
    /\ evOut = Idle

EpochTick ==
    /\ now < EpochMaxTime
    /\ now' = now + 1
    /\ UNCHANGED <<objs, lastAlert, ret>>
    /\ RiskFrame

NextEpoch == EpochTick \/ RiskFilterCall \/ RiskResetCall

SpecEpoch == InitEpoch /\ [][NextEpoch]_vars

(***************************************************************************)
(* C20  An event with no active cooldown is never rate-limited: for an     *)
(* event that has no clock (it never passed filtering, or reset_cooldown   *)
(* has just removed its clock) get_cooldown_remaining is 0 and the next    *)
(* filter call for it raises no COOLDOWN flag, whatever the time of the    *)
(* call; reset_cooldown changes no other event's clock.                    *)
(***************************************************************************)
C20_NoCooldownNeverLimited ==
    [][/\ \A e \in Events \ DOMAIN lastAlert :
              get_cooldown_remaining(lastAlert, e, now) = 0
       /\ \A i \in 1..Len(objs) :
              (FilterStep(i) /\ objs[i].event_id \notin DOMAIN lastAlert)
                  => CooldownFlags(objs'[i]) = <<>>
       /\ (ret'.n # ret.n /\ ret'.op = "reset_cooldown")
              => \A x \in Events \ {ret'.event} :
                     /\ x \in DOMAIN lastAlert' <=> x \in DOMAIN lastAlert
                     /\ x \in DOMAIN lastAlert => lastAlert'[x] = lastAlert[x]]_vars

(***************************************************************************)
(* The engine holding an old snapshot, a snapshot whose first_seen_ts      *)
(* does not parse, and a snapshot taken just now.                          *)
(***************************************************************************)
InitClear ==
    /\ enabled = TRUE
    /\ now = StartTime
    /\ book = [m \in MarketIds |-> QA]
    /\ snapshots = [m \in {"m1", "m2", "m3"} |->
                       IF m = "m1" THEN ArbSnapshot(m, "manual", EarlierScan, QA)
                       ELSE IF m = "m2"
                       THEN [ArbSnapshot(m, "manual", StartTime, QA) EXCEPT !.first_seen_ts = BadTs]
                       ELSE ArbSnapshot(m, "manual", StartTime, QA)]
    /\ objs = <<>>
    /\ log = <<>>
    /\ lastAlert = EmptyMap
    /\ ret = Idle
    /\ firstP0 = [m \in {"m1", "m2", "m3"} |-> QA.mid]
    /\ moves = 0
    /\ ncalls = 0
    /\ evIn = Idle
    /\ evOut = Idle

SpecClear == InitClear /\ [][Next]_vars

(***************************************************************************)
(* C21  Snapshot lifecycle: clear_snapshots(older_than_hours) removes      *)
(* exactly the snapshots whose age since first_seen_ts exceeds the         *)
(* threshold, returns their number, keeps a snapshot whose timestamp does  *)
(* not parse and does not raise; every other operation leaves each stored  *)
(* snapshot in the store, unmodified.                                      *)
(***************************************************************************)
C21_SnapshotLifecycle ==
    [][IF CallStep({"clear_snapshots"})
       THEN LET gone == {m \in DOMAIN snapshots :
                            /\ snapshots[m].first_seen_ts # BadTs
                            /\ now - snapshots[m].first_seen_ts > ret'.older_than}
            IN  /\ ~ret'.raised
                /\ ret'.val = Cardinality(gone)
                /\ DOMAIN snapshots' = DOMAIN snapshots \ gone
                /\ \A m \in DOMAIN snapshots' : snapshots'[m] = snapshots[m]
       ELSE \A m \in DOMAIN snapshots :
                m \in DOMAIN snapshots' /\ snapshots'[m] = snapshots[m]]_vars

\* an eviction that removed the old snapshot and kept both the unparseable
\* one and one whose age equals the threshold
C21_Witness ==
    /\ ret.op = "clear_snapshots"
    /\ ret.val >= 1
    /\ "m1" \notin DOMAIN snapshots
    /\ \E m \in DOMAIN snapshots : snapshots[m].first_seen_ts = BadTs
    /\ \E m \in DOMAIN snapshots :
          /\ snapshots[m].first_seen_ts # BadTs
          /\ now - snapshots[m].first_seen_ts = ret.older_than

(***************************************************************************)
(* Scans of an engine that holds the snapshots of event e2, whose short    *)
(* market has moved since; the quotes of event e1 may become unavailable.  *)
(***************************************************************************)
InitUnavailable ==
    /\ enabled = TRUE
    /\ now = StartTime
    /\ book = [m \in MarketIds |-> IF m = "m3" THEN QB ELSE QA]
    /\ snapshots = [m \in Ids(EventMarkets("e2")) |-> ArbSnapshot(m, "manual", StartTime, QA)]
    /\ objs = <<>>
    /\ log = <<>>
    /\ lastAlert = EmptyMap
    /\ ret = Idle
    /\ firstP0 = [m \in Ids(EventMarkets("e2")) |-> QA.mid]
    /\ moves = 0
    /\ ncalls = 0
    /\ evIn = Idle
    /\ evOut = Idle

NextUnavailable ==
    \/ Tick
    \/ MarketMove
    \/ CreateSnapshots
    \/ DetectOpportunities
    \/ ClearSnapshots

SpecUnavailable == InitUnavailable /\ [][NextUnavailable]_vars

\* the number of markets of event e that have a quote
QuoteCount(e) == Cardinality({m \in Ids(EventMarkets(e)) : book[m].kind = "quote"})

(***************************************************************************)
(* C22  Data unavailability skips only the affected unit.  In a call in   *)
(* which the provider raises nothing: create_snapshots gives a market      *)
(* without a quote no snapshot and leaves it out of the returned map,      *)
(* and snapshots every other market of the call; detect_opportunities      *)
(* invokes the strategy for exactly the events with at least 2 quotes,     *)
(* yields nothing for the others, still handles the events after a         *)
(* skipped one, and yields at most one opportunity per event.              *)
(***************************************************************************)
C22_UnavailableSkipsOnlyUnit ==
    [][/\ (CallStep({"create_snapshots"}) /\ ~BatchThrows(EventMarkets(ret'.event))) =>
              /\ ~ret'.raised
              /\ \A m \in Ids(EventMarkets(ret'.event)) :
                    /\ (m \notin DOMAIN snapshots /\ book[m] = NoQuote)
                           => (m \notin DOMAIN snapshots' /\ m \notin ret'.val)
                    /\ book[m].kind = "quote"
                           => (m \in DOMAIN snapshots' /\ m \in ret'.val)
       /\ (CallStep({"detect_opportunities"})
           /\ \A k \in 1..Len(ret'.scan.events) : ~BatchThrows(EventMarkets(ret'.scan.events[k]))) =>
              LET events == ret'.scan.events
                  found == [i \in 1..Len(ret'.val) |-> objs'[ret'.val[i]].event_id]
              IN  /\ ~ret'.raised
                  /\ ret'.scan.evals
                        = Cardinality({k \in 1..Len(events) : QuoteCount(events[k]) >= 2})
                  /\ \A k \in 1..Len(events) :
                        /\ QuoteCount(events[k]) < 2
                               => \A i \in 1..Len(found) : found[i] # events[k]
                        /\ \A m \in Ids(EventMarkets(events[k])) :
                               book[m].kind = "quote" => m \in DOMAIN snapshots'
                  /\ found = ret'.scan.expect
                  /\ \A i, j \in 1..Len(found) : found[i] = found[j] => i = j]_vars

\* a scan of both events skipped e1, one of whose markets had no quote, and
\* produced the opportunity of e2
C22_Witness ==
    /\ ret.op = "detect_opportunities"
    /\ ~ret.raised
    /\ ret.scan.events = <<"e1", "e2">>
    /\ book["m1"] = NoQuote
    /\ "m1" \notin DOMAIN snapshots
    /\ "m2" \in DOMAIN snapshots
    /\ ret.scan.evals = 1
    /\ Len(ret.val) = 1
    /\ objs[ret.val[1]].event_id = "e2"

(***************************************************************************)
(* C23  The strategy triggers only if |delta_short - delta_long| exceeds   *)
(* the threshold: every opportunity evaluate returns has delta_diff        *)
(* strictly greater than delta_threshold, so a divergence equal to the     *)
(* threshold does not trigger.                                             *)
(***************************************************************************)
C23_TriggersAboveThresholdOnly ==
    (Evaluated /\ evOut.val # NoOpp) => evOut.val.delta_diff > delta_threshold

(***************************************************************************)
(* C24  Every opportunity evaluate returns has status CANDIDATE and no     *)
(* risk flags, and exactly two legs: the first with side SHORT_LEG, the    *)
(* second with side LONG_LEG, on two different markets of the event, the   *)
(* short leg's tenor_days at most the long leg's, each leg's delta equal   *)
(* to its current_mid minus the p0 of its snapshot, and delta_diff equal   *)
(* to |delta_short - delta_long|.                                          *)
(***************************************************************************)
C24_OpportunityShape ==
    (Evaluated /\ evOut.val # NoOpp) =>
        LET opp == evOut.val
            short == opp.legs[1]
            long == opp.legs[2]
        IN  /\ opp.status = "CANDIDATE"
            /\ opp.risk_flags = <<>>
            /\ Len(opp.legs) = 2
            /\ short.side = "SHORT_LEG"
            /\ long.side = "LONG_LEG"
            /\ short.market_id # long.market_id
            /\ {short.market_id, long.market_id} \subseteq Ids(evIn.markets)
            /\ short.tenor_days <= long.tenor_days
            /\ \A leg \in {short, long} :
                  /\ leg.current_mid = evIn.quotes[leg.market_id].mid
                  /\ leg.delta = leg.current_mid - evIn.snaps[leg.market_id].p0
                  /\ \E i \in 1..Len(evIn.markets) :
                        /\ evIn.markets[i].market_id = leg.market_id
                        /\ evIn.markets[i].tenor_days = leg.tenor_days
            /\ opp.delta_diff = Abs(short.delta - long.delta)

\* an opportunity both of whose legs have moved, from markets that were not
\* handed over in the order of their tenors
C24_Witness ==
    /\ Evaluated
    /\ evOut.val # NoOpp
    /\ evOut.val.legs[1].delta # 0
    /\ evOut.val.legs[2].delta # 0
    /\ evOut.val.legs[1].market_id = "m2"
    /\ evIn.markets[1].tenor_days > evIn.markets[2].tenor_days

(***************************************************************************)
(* C25  Every opportunity held in the engine's opportunity log, as         *)
(* get_opportunities returns it, has status CONFIRMED, after any sequence  *)
(* of public operations, filter_opportunities on objects an earlier call   *)
(* has returned included.                                                  *)
(***************************************************************************)
C25_LogHoldsConfirmedOnly ==
    \A i \in 1..Len(log) : objs[log[i]].status = "CONFIRMED"

(***************************************************************************)
(* The news pipeline over a feed whose items match different keywords,     *)
(* against a provider whose answer depends on the keywords searched.       *)
(* The engine holds the snapshots of both events; the short market of e1   *)
(* has moved since.                                                        *)
(***************************************************************************)
NewsRate == NewsItem({"rate", "cut"}, "n3")

NewsFeeds == { <<NewsHit, NewsRate>>, <<NewsRate, NewsHit>>, <<NewsMiss, NewsRate>> }

KeywordSearches ==
    { search \in [KeywordLists -> { <<"e1", "e2">>, ListingThrows }] :
          search[KeywordPatterns] = <<"e1", "e2">> }

InitNews ==
    /\ enabled = TRUE
    /\ now = StartTime
    /\ book = [m \in MarketIds |-> IF m = "m1" THEN QB ELSE QA]
    /\ snapshots = [m \in MarketIds |-> ArbSnapshot(m, "manual", StartTime, QA)]
    /\ objs = <<>>
    /\ log = <<>>
    /\ lastAlert = EmptyMap
    /\ ret = Idle
    /\ firstP0 = [m \in MarketIds |-> QA.mid]
    /\ moves = 0
    /\ ncalls = 0
    /\ evIn = Idle
    /\ evOut = Idle

RunNewsPipeline ==
    /\ PublicCall
    /\ \E feed \in NewsFeeds, search \in KeywordSearches :
        \E o \in { run_full_pipeline(CurState, TRUE, feed, feed, search, now) } :
            /\ Commit(o)
            /\ ret' = [op |-> "run_full_pipeline", raised |-> o.raised, val |-> o.val,
                       calls |-> o.st.calls, news |-> [feed |-> feed, search |-> search]]

NextNews ==
    \/ Tick
    \/ MarketMove
    \/ RunNewsPipeline

SpecNews == InitNews /\ [][NextNews]_vars

(***************************************************************************)
(* C26  The result of run_full_pipeline agrees with the engine's state:    *)
(* in every call, one in which a provider throws part-way included, the    *)
(* number of opportunities the call appended to the opportunity log, and   *)
(* the number of events whose cooldown clock it started, equal the         *)
(* result's opportunities_confirmed and the length of its opportunities    *)
(* list.                                                                   *)
(***************************************************************************)
C26_PipelineResultMatchesState ==
    [][CallStep({"run_full_pipeline"}) =>
          LET appended == Len(log') - Len(log)
              started == Cardinality({e \in DOMAIN lastAlert' :
                                         e \notin DOMAIN lastAlert
                                         \/ lastAlert'[e] # lastAlert[e]})
          IN  /\ ret'.val.opportunities_confirmed = appended
              /\ Len(ret'.val.opportunities) = appended
              /\ started = appended]_vars

(***************************************************************************)
(* C27  A snapshot records the trigger that created it: a snapshot created *)
(* while process_news handles a news item carries that item's news_id;     *)
(* only a snapshot created by a manual scan carries news_id "manual".      *)
(***************************************************************************)
C27_SnapshotRecordsTrigger ==
    [][CallStep({"process_news"}) =>
          \A m \in DOMAIN snapshots' \ DOMAIN snapshots :
              /\ snapshots'[m].news_id = ret'.item.url
              /\ snapshots'[m].news_id # "manual"]_vars

(***************************************************************************)
(* C28  Every opportunity that leaves RiskManager.filter in status         *)
(* CANDIDATE has, on each of its legs, a quote whose 24h volume is known   *)
(* and at least min_volume_24h and whose spread_bps is at most             *)
(* max_spread_bps: a leg whose quote carries no volume figure does not     *)
(* pass the volume gate.                                                   *)
(***************************************************************************)
C28_CandidateLegsLiquid ==
    [][\A i \in 1..Len(objs) :
          (FilterStep(i) /\ objs'[i].status = "CANDIDATE") =>
              \A k \in 1..Len(objs'[i].legs) :
                  LET market_id == objs'[i].legs[k].market_id
                  IN  /\ market_id \in DOMAIN ret'.quotes
                      /\ ret'.quotes[market_id].volume_24h # NoneVal
                      /\ ret'.quotes[market_id].volume_24h >= min_volume_24h
                      /\ ret'.quotes[market_id].spread_bps <= max_spread_bps]_vars

(***************************************************************************)
(* core/quota.py.  The QuotaManager is held in evIn: its configuration     *)
(* and its two TTL caches of usage counters; evOut is the last call.       *)
(***************************************************************************)
MaxCost == 2

QuotaProviders == {"finnhub", "okx", "fred"}

\* usage_mode.quotas of config.yaml: fred has no entry, okx no per_minute
Quotas ==
    [finnhub |-> [per_minute |-> 3, per_day |-> 4],
     okx |-> [per_minute |-> NoneVal, per_day |-> 3]]

\* TTLCache.get(provider, 0)
UsedOf(counter, provider) == IF provider \in DOMAIN counter THEN counter[provider] ELSE 0

\* counter[provider] = counter.get(provider, 0) + cost
Consume(counter, provider, cost) ==
    [x \in DOMAIN counter \cup {provider} |->
        IF x = provider THEN UsedOf(counter, provider) + cost ELSE counter[x]]

QuotaCheckResult(q, allowed, reason) == [q |-> q, allowed |-> allowed, reason |-> reason]

\* a denial that has consumed the per-minute counter before the per-day check
DeniedAfterConsuming(q, provider, cost, reason) ==
    QuotaCheckResult(IF reason = "per_day quota exceeded"
                        /\ q.quotas[provider].per_minute # NoneVal
                     THEN [q EXCEPT !.per_minute = Consume(@, provider, cost)]
                     ELSE q,
                     FALSE, reason)

\* the early returns of the check: nothing is consumed
Denied(q, provider, cost, reason) == QuotaCheckResult(q, FALSE, reason)

\* QuotaManager.check_and_consume
check_and_consume(q, provider, cost) ==
    IF ~q.enabled THEN QuotaCheckResult(q, TRUE, "")
    ELSE IF provider \notin DOMAIN q.quotas THEN QuotaCheckResult(q, TRUE, "")
    ELSE
    LET per_minute == q.quotas[provider].per_minute
        per_day == q.quotas[provider].per_day
    IN  IF per_minute # NoneVal /\ UsedOf(q.per_minute, provider) + cost > per_minute
        THEN Denied(q, provider, cost, "per_minute quota exceeded")
        ELSE IF per_day # NoneVal /\ UsedOf(q.per_day, provider) + cost > per_day
        THEN Denied(q, provider, cost, "per_day quota exceeded")
        ELSE QuotaCheckResult(
                 [q EXCEPT !.per_minute = IF per_minute # NoneVal
                                          THEN Consume(@, provider, cost) ELSE @,
                           !.per_day = IF per_day # NoneVal
                                       THEN Consume(@, provider, cost) ELSE @],
                 TRUE, "")

InitQuota ==
    /\ EngineIdle
    /\ evIn \in { [enabled |-> en, quotas |-> Quotas, per_minute |-> EmptyMap,
                   per_day |-> EmptyMap] : en \in BOOLEAN }
    /\ evOut = [op |-> "none", n |-> 0]

QuotaFrame ==
    UNCHANGED <<enabled, now, book, snapshots, objs, log, lastAlert, ret, firstP0, moves,
                ncalls>>

\* BaseProvider._consume_quota: raises QuotaExceededError on a denial
ConsumeQuota ==
    /\ \E provider \in QuotaProviders, cost \in 1..MaxCost :
        \E r \in { check_and_consume(evIn, provider, cost) } :
            /\ evIn' = r.q
            /\ evOut' = [op |-> "check_and_consume", n |-> 1 - evOut.n, provider |-> provider,
                         cost |-> cost, allowed |-> r.allowed, reason |-> r.reason,
                         raised |-> ~r.allowed]
    /\ QuotaFrame

\* the per-minute counter of a provider reaches its time to live
MinuteExpires ==
    /\ \E provider \in DOMAIN evIn.per_minute :
        evIn' = [evIn EXCEPT !.per_minute = [x \in DOMAIN @ \ {provider} |-> @[x]]]
    /\ evOut' = [op |-> "expire", n |-> evOut.n]
    /\ QuotaFrame

\* the per-day counter of a provider reaches its time to live
DayExpires ==
    /\ \E provider \in DOMAIN evIn.per_day :
        evIn' = [evIn EXCEPT !.per_day = [x \in DOMAIN @ \ {provider} |-> @[x]]]
    /\ evOut' = [op |-> "expire", n |-> evOut.n]
    /\ QuotaFrame

NextQuota == ConsumeQuota \/ MinuteExpires \/ DayExpires

SpecQuota == InitQuota /\ [][NextQuota]_vars

\* the providers the manager enforces both limits for
BothLimits(q) ==
    { x \in DOMAIN q.quotas :
        q.enabled /\ q.quotas[x].per_minute # NoneVal /\ q.quotas[x].per_day # NoneVal }

(***************************************************************************)
(* C30  check_and_consume is all-or-nothing.  For a provider with both     *)
(* limits configured, in a manager that enforces quotas: the per-minute    *)
(* and per-day counters never exceed per_minute and per_day; a call is     *)
(* allowed iff used + cost fits within both limits; an allowed call adds   *)
(* cost to both counters; a denied call leaves both counters unchanged     *)
(* (the per-minute counter is not consumed when only the per-day limit is  *)
(* exceeded).                                                              *)
(***************************************************************************)
C30_QuotaAllOrNothing ==
    [][/\ \A x \in BothLimits(evIn') :
              /\ UsedOf(evIn'.per_minute, x) <= evIn'.quotas[x].per_minute
              /\ UsedOf(evIn'.per_day, x) <= evIn'.quotas[x].per_day
       /\ (evOut'.n # evOut.n /\ evOut'.provider \in BothLimits(evIn)) =>
              LET x == evOut'.provider
                  cost == evOut'.cost
                  fits == /\ UsedOf(evIn.per_minute, x) + cost <= evIn.quotas[x].per_minute
                          /\ UsedOf(evIn.per_day, x) + cost <= evIn.quotas[x].per_day
              IN  /\ evOut'.allowed <=> fits
                  /\ evOut'.allowed =>
                        /\ UsedOf(evIn'.per_minute, x) = UsedOf(evIn.per_minute, x) + cost
                        /\ UsedOf(evIn'.per_day, x) = UsedOf(evIn.per_day, x) + cost
                  /\ ~evOut'.allowed =>
                        /\ evIn'.per_minute = evIn.per_minute
                        /\ evIn'.per_day = evIn.per_day]_vars

\* a call denied by the per-day limit alone, which has left the per-minute
\* counter below its limit and where it was
C30_Witness ==
    /\ evOut.op = "check_and_consume"
    /\ evOut.provider = "finnhub"
    /\ ~evOut.allowed
    /\ evOut.reason = "per_day quota exceeded"
    /\ UsedOf(evIn.per_minute, "finnhub") > 0
    /\ UsedOf(evIn.per_minute, "finnhub") + evOut.cost <= evIn.quotas["finnhub"].per_minute

(***************************************************************************)
(* Two scans on the same engine, each inside create_snapshots for the same *)
(* market.  The loop body takes three steps: the existence check, the      *)
(* provider's get_quote, the insert; nothing in the engine keeps the       *)
(* steps of the two calls apart.  evIn holds the position of each call.    *)
(***************************************************************************)
Scans == {"scanA", "scanB"}

OverlapMarket == "m1"

ScanIdle == [pc |-> "idle", ts |-> NoneVal, quote |-> NoQuote, got |-> NoneVal, alone |-> TRUE]

InProgress(scan) == scan.pc \in {"fetch", "insert"}

\* a membership test that never finds the snapshot
HasSnapshotNever(sn, market_id) == FALSE

\* market.market_id in self._snapshots
HasSnapshot(sn, market_id) == market_id \in DOMAIN sn

\* the positions after scan c has moved to position next: a call in
\* progress meanwhile is no longer alone
Interleave(c, next) ==
    [x \in Scans |-> IF x = c THEN next
                     ELSE IF InProgress(evIn[x]) THEN [evIn[x] EXCEPT !.alone = FALSE]
                     ELSE evIn[x]]

InitOverlap ==
    /\ EngineIdle
    /\ evIn = [c \in Scans |-> ScanIdle]
    /\ evOut = Idle

OverlapFrame == UNCHANGED <<enabled, now, book, objs, log, lastAlert, ret, moves, ncalls, evOut>>

\* create_snapshots takes its timestamp and tests whether the market has a
\* snapshot; if so it returns the stored one
CheckExisting ==
    /\ \E c \in Scans :
        /\ evIn[c].pc = "idle"
        /\ evIn' = Interleave(c,
              IF HasSnapshot(snapshots, OverlapMarket)
              THEN [evIn[c] EXCEPT !.pc = "done", !.ts = now,
                                   !.got = snapshots[OverlapMarket].p0,
                                   !.alone = \A x \in Scans \ {c} : ~InProgress(evIn[x])]
              ELSE [evIn[c] EXCEPT !.pc = "fetch", !.ts = now,
                                   !.alone = \A x \in Scans \ {c} : ~InProgress(evIn[x])])
    /\ UNCHANGED <<snapshots, firstP0>>
    /\ OverlapFrame

\* provider.get_quote: without a quote, or when the provider raises, the
\* call ends with no snapshot for the market
FetchQuote ==
    /\ \E c \in Scans :
        /\ evIn[c].pc = "fetch"
        /\ evIn' = Interleave(c,
              IF book[OverlapMarket].kind = "quote"
              THEN [evIn[c] EXCEPT !.pc = "insert", !.quote = book[OverlapMarket]]
              ELSE [evIn[c] EXCEPT !.pc = "done"])
    /\ UNCHANGED <<snapshots, firstP0>>
    /\ OverlapFrame

\* self._snapshots[market_id] = snapshot, and the snapshot is returned
InsertSnapshot ==
    /\ \E c \in Scans :
        /\ evIn[c].pc = "insert"
        /\ snapshots' = StoreSnapshot(snapshots, OverlapMarket,
                                      ArbSnapshot(OverlapMarket, "manual", evIn[c].ts,
                                                  evIn[c].quote))
        /\ evIn' = Interleave(c, [evIn[c] EXCEPT !.pc = "done", !.got = evIn[c].quote.mid])
        /\ firstP0' = [m \in DOMAIN firstP0 \cup {OverlapMarket} |->
                          IF m \in DOMAIN firstP0 THEN firstP0[m] ELSE evIn[c].quote.mid]
    /\ OverlapFrame

\* a finished scan is followed by another one
NextScan ==
    /\ \E c \in Scans :
        /\ evIn[c].pc = "done"
        /\ evIn' = [evIn EXCEPT ![c] = ScanIdle]
    /\ UNCHANGED <<snapshots, firstP0>>
    /\ OverlapFrame

NextOverlap ==
    \/ Tick
    \/ MarketMove
    \/ CheckExisting
    \/ FetchQuote
    \/ InsertSnapshot
    \/ NextScan

SpecOverlap == InitOverlap /\ [][NextOverlap]_vars

(***************************************************************************)
(* C29  (as stated) snapshot create-once holds under overlapping scans:    *)
(* when the create_snapshots calls of two scans for the same market        *)
(* interleave, the market ends with a single snapshot, and a p0 already    *)
(* stored and returned to one scan is never overwritten by the other.      *)
(***************************************************************************)
C29_CreateOnceUnderOverlap ==
    [][\A m \in DOMAIN snapshots :
          m \in DOMAIN snapshots' /\ snapshots'[m].p0 = snapshots[m].p0]_vars

(***************************************************************************)
(* C29  (amended) snapshot create-once holds for calls that do not         *)
(* overlap: a create_snapshots call during which no other call on the      *)
(* engine takes a step inserts only for a market without a snapshot and    *)
(* otherwise returns the stored p0; a stored p0 is overwritten only by a   *)
(* call that overlapped another, one that passed its existence check       *)
(* before the other call's insert.                                         *)
(***************************************************************************)
C29_CreateOnceWhenSerial ==
    [][\A c \in Scans :
          (evIn'[c].pc = "done" /\ evIn[c].pc # "done" /\ evIn'[c].alone) =>
              /\ \A m \in DOMAIN snapshots :
                    m \in DOMAIN snapshots' /\ snapshots'[m] = snapshots[m]
              /\ HasSnapshot(snapshots, OverlapMarket) =>
                    evIn'[c].got = snapshots[OverlapMarket].p0
              /\ evIn[c].pc = "insert" =>
                    /\ ~HasSnapshot(snapshots, OverlapMarket)
                    /\ snapshots'[OverlapMarket].p0 = evIn'[c].got]_vars

\* a scan that ran alone after the market had moved was handed the stored
\* p0, which is not the mid the provider quotes any more
C29_Witness ==
    /\ HasSnapshot(snapshots, OverlapMarket)
    /\ snapshots[OverlapMarket].first_seen_ts = StartTime
    /\ \E c \in Scans :
          /\ evIn[c].pc = "done"
          /\ evIn[c].alone
          /\ evIn[c].ts >= StartTime + TicksPerSec
          /\ evIn[c].got = snapshots[OverlapMarket].p0
    /\ book[OverlapMarket].kind = "quote"
    /\ book[OverlapMarket].mid # snapshots[OverlapMarket].p0

====
